---- MODULE Spec2Model ----
(***************************************************************************)
(* Posture scoring engine of the Shooting-Posture-Analyzer                 *)
(* (src/core/posture_analyzer.py): the joint tables, the fuzzy quality     *)
(* inference, analyze_posture and analyze_stability.                       *)
(*                                                                         *)
(* Numbers are fixed point.  Angles are integers in tenths of a degree,    *)
(* deviation percentages are integers (the sampled angles are chosen so    *)
(* that the percentage of the code is a whole number, see ExactDeviation), *)
(* membership degrees are in 1/MScale, positions of the quality universe   *)
(* in 1/XScale, quality scores in 1/QScale, joint weights in 1/WScale and  *)
(* variation percentages in 1/VScale.                                      *)
(***************************************************************************)
EXTENDS Integers, Sequences, FiniteSets, TLC

VARIABLES
    posture_sim,            \* self.posture_sim: the simulation's last input and output
    joint_angles,           \* the sample of the latest analyze_posture call
    outcome,                \* "none", "returned" or "ZeroDivisionError"
    analysis,               \* the FrameAnalysis the latest call returned
    joint_angles_sequence,  \* the samples recorded for analyze_stability
    stability_outcome,      \* "none" (recording) or "returned"
    stability,              \* the StabilityAnalysis of the recorded sequence
    infer_inputs,           \* two values given to posture_sim.input['deviation']
    infer_outputs,          \* the posture_sim.output['quality'] of each, once computed
    all_posture_analyses,   \* the frame analyses collected for the summary
    summary_stability,      \* the stability analysis given to generate_session_summary
    summary_outcome,        \* "none" (collecting) or "returned"
    summary,                \* the SessionSummary generate_session_summary returned
    stored_session,         \* the row of table sessions of the processed session
    loaded_session,         \* what get_session returned for that row
    threads,                \* per thread: its position in analyze_posture and its locals
    widget,                 \* LiveAnalysisWidget: recording and save state
    video_thread,           \* VideoThread: recording flag and recorded frames
    database,               \* DataManager: the rows of sessions and session_data
    player,                 \* VideoPlayer: the loaded session and the position in it
    live,                   \* LiveAnalysisWidget and VideoThread: what a recording keeps
    store,                  \* DataManager: the rows of users, sessions, session_data, settings
    detector                \* AudioDetector: its fields, its processor threads, the clock

vars == <<posture_sim, joint_angles, outcome, analysis,
          joint_angles_sequence, stability_outcome, stability,
          infer_inputs, infer_outputs,
          all_posture_analyses, summary_stability, summary_outcome, summary,
          stored_session, loaded_session,
          threads, widget, video_thread, database,
          player, live, store, detector>>

(***************************************************************************)
(* Fixed-point resolutions.                                                *)
(***************************************************************************)
AngleScale == 10
XScale == 5
MScale == 300
QScale == 1000
WScale == 100
VScale == 100

(***************************************************************************)
(* The joint tables of PostureAnalyzer.__init__.                           *)
(***************************************************************************)
\* Iteration order of self.ideal_angles.items()
JointOrder ==
    <<"knees", "hips", "left_shoulder", "right_shoulder",
      "left_elbow", "right_elbow", "wrists", "neck">>

Joints == {JointOrder[i] : i \in 1..Len(JointOrder)}

ideal_angles ==
    [knees |-> 1725, hips |-> 1800, left_shoulder |-> 450, right_shoulder |-> 150,
     left_elbow |-> 750, right_elbow |-> 900, wrists |-> 1800, neck |-> 125]

angle_ranges ==
    [knees |-> <<1700, 1750>>, hips |-> <<1750, 1850>>,
     left_shoulder |-> <<300, 600>>, right_shoulder |-> <<0, 300>>,
     left_elbow |-> <<600, 900>>, right_elbow |-> <<800, 1000>>,
     wrists |-> <<1700, 1900>>, neck |-> <<100, 150>>]

joint_weights ==
    [knees |-> 10, hips |-> 10, left_shoulder |-> 20, right_shoulder |-> 10,
     left_elbow |-> 20, right_elbow |-> 15, wrists |-> 5, neck |-> 10]

feedback_rules ==
    [knees |->
        [low |-> "Straighten your knees slightly, they're too bent",
         high |-> "Bend your knees slightly for better stability"],
     hips |->
        [low |-> "Adjust your hip position to be more upright",
         high |-> "Lower your hips slightly for better alignment"],
     left_shoulder |->
        [low |-> "Raise your left shoulder more to support the rifle",
         high |-> "Lower your left shoulder slightly for better control"],
     right_shoulder |->
        [low |-> "Raise your right shoulder slightly",
         high |-> "Lower your right shoulder closer to your body"],
     left_elbow |->
        [low |-> "Raise your left elbow more to support the rifle",
         high |-> "Lower your left elbow slightly for better stability"],
     right_elbow |->
        [low |-> "Bend your right elbow more for proper grip",
         high |-> "Extend your right elbow slightly for better control"],
     wrists |->
        [low |-> "Straighten your wrists more for consistent support",
         high |-> "Relax your wrists slightly for better control"],
     neck |->
        [low |-> "Tilt your head forward slightly to align with sights",
         high |-> "Raise your head slightly to improve sight alignment"]]

PositiveFeedback == "Great posture! Keep maintaining this stance."

NoPoseFeedback == "No pose detected"

(***************************************************************************)
(* The fuzzy system of _init_fuzzy_system.                                 *)
(***************************************************************************)
\* np.arange(0, 101, 1): the integer positions of both universes
Universe == 0..100

deviation_mf ==
    [small |-> <<0, 0, 25>>, medium |-> <<0, 25, 50>>,
     large |-> <<25, 50, 75>>, very_large |-> <<50, 100, 100>>]

\* quality_mf with the breakpoints of fair and good exchanged
quality_mfSwapped ==
    [poor |-> <<0, 0, 30>>, fair |-> <<40, 70, 90>>,
     good |-> <<10, 40, 70>>, excellent |-> <<70, 100, 100>>]

quality_mf ==
    [poor |-> <<0, 0, 30>>, fair |-> <<10, 40, 70>>,
     good |-> <<40, 70, 90>>, excellent |-> <<70, 100, 100>>]

QualityTerms == {"poor", "fair", "good", "excellent"}

\* The rules wired to the opposite quality terms
rulesReversed ==
    [excellent |-> "very_large", good |-> "large", fair |-> "medium", poor |-> "small"]

\* rule1..rule4: the antecedent term of each consequent term
rules ==
    [excellent |-> "small", good |-> "medium", fair |-> "large", poor |-> "very_large"]

\* fuzz.trimf at position x (in 1/XScale), breakpoints abc = <<a, b, c>>
trimf(x, abc) ==
    LET a == abc[1] * XScale
        b == abc[2] * XScale
        c == abc[3] * XScale
    IN  IF x = b THEN MScale
        ELSE IF a < x /\ x < b THEN (MScale * (x - a)) \div (b - a)
        ELSE IF b < x /\ x < c THEN (MScale * (c - x)) \div (c - b)
        ELSE 0

Min(a, b) == IF a < b THEN a ELSE b

Max(a, b) == IF a > b THEN a ELSE b

\* The cut of each quality term for deviation d: the membership of d in the
\* antecedent term of the term's rule.
Cuts(d) == [t \in QualityTerms |-> trimf(d * XScale, deviation_mf[rules[t]])]

\* The positions where a quality term's membership function meets its cut;
\* the simulation adds them to the universe before defuzzifying.
CutPoints(abc, cut) ==
    IF cut = 0 THEN {}
    ELSE (IF abc[1] < abc[2]
             THEN {abc[1] * XScale + (cut * (abc[2] - abc[1]) * XScale) \div MScale}
             ELSE {})
         \cup
         (IF abc[2] < abc[3]
             THEN {abc[3] * XScale - (cut * (abc[3] - abc[2]) * XScale) \div MScale}
             ELSE {})

UpsampledUniverse(cuts) ==
    {i * XScale : i \in Universe}
        \cup UNION {CutPoints(quality_mf[t], cuts[t]) : t \in QualityTerms}

\* Aggregated output membership at x: each term clipped at its cut, then the
\* maximum over the terms.
Aggregate(x, cuts) ==
    LET clipped(t) == Min(cuts[t], trimf(x, quality_mf[t]))
    IN  Max(Max(clipped("poor"), clipped("fair")),
            Max(clipped("good"), clipped("excellent")))

\* Twice the area, and six times the moment, of the trapezoid under the
\* aggregated membership between two neighbouring positions x1 < x2.
SegArea2(x1, x2, cuts) ==
    (x2 - x1) * (Aggregate(x1, cuts) + Aggregate(x2, cuts))

SegMoment6(x1, x2, cuts) ==
    3 * SegArea2(x1, x2, cuts) * x1
        + (x2 - x1) * (x2 - x1) * (Aggregate(x1, cuts) + 2 * Aggregate(x2, cuts))

\* Sums over the neighbouring pairs of the upsampled universe that lie between
\* the integer positions i and i + 1: the walk goes over x = last + 1 ..
\* (i + 1) * XScale, and last is the latest position of the universe.
RECURSIVE UnitSums(_, _, _, _, _)
UnitSums(x, last, stop, cuts, U) ==
    IF x > stop THEN <<0, 0>>
    ELSE IF x \in U
        THEN LET rest == UnitSums(x + 1, x, stop, cuts, U)
             IN  <<SegArea2(last, x, cuts) + rest[1],
                   SegMoment6(last, x, cuts) + rest[2]>>
        ELSE UnitSums(x + 1, last, stop, cuts, U)

\* Sums over all neighbouring pairs of the upsampled universe between the
\* integer positions lo and hi + 1 (the range is halved to keep the depth low)
RECURSIVE CentroidSums(_, _, _, _)
CentroidSums(lo, hi, cuts, U) ==
    IF lo = hi
        THEN UnitSums(lo * XScale + 1, lo * XScale, (lo + 1) * XScale, cuts, U)
        ELSE LET mid == (lo + hi) \div 2
                 left == CentroidSums(lo, mid, cuts, U)
                 right == CentroidSums(mid + 1, hi, cuts, U)
             IN  <<left[1] + right[1], left[2] + right[2]>>

\* num / den in 1/scale, rounded down, for 0 <= num and 0 < den; the digits
\* are taken one decimal place at a time to stay within 32-bit integers.
RECURSIVE LongDiv(_, _, _)
LongDiv(num, den, scale) ==
    IF scale = 1 THEN <<num \div den, num % den>>
    ELSE LET p == LongDiv(num, den, scale \div 10)
         IN  <<10 * p[1] + (10 * p[2]) \div den, (10 * p[2]) % den>>

FixedDiv(num, den, scale) == LongDiv(num, den, scale)[1]

\* Centroid defuzzification, in 1/QScale: sum of moment * area over sum of area
Centroid(cuts) ==
    LET sums == CentroidSums(0, 99, cuts, UpsampledUniverse(cuts))
    IN  FixedDiv(sums[2], 3 * XScale * sums[1], QScale)

\* posture_sim.input['deviation'] = d; compute(); output['quality']
infer(d) == Centroid(Cuts(d))

\* A function written out as its table of values
Tabulate(f) == f @@ [n \in {} |-> 0]

\* The quality of every whole deviation percentage
InferTable == Tabulate([d \in Universe |-> infer(d)])

(***************************************************************************)
(* analyze_posture.                                                        *)
(***************************************************************************)
EmptyDict == [n \in {} |-> 0]

\* The number type of the measured angles: Python float, or numpy.float64 as
\* the pose pipeline produces it.  A float division by 0.0 raises
\* ZeroDivisionError; a float64 division by 0.0 yields inf.
\* float('nan'): a value outside every range of angles, for which no
\* comparison holds
NaN == -999999

\* np.isnan(v)
IsNaN(v) == v = NaN

\* The joints of a sample whose angle is NaN
NaNJoints(sample) == {n \in DOMAIN sample : IsNaN(sample[n])}

\* a < b between floats: False when either is NaN
Less(a, b) == ~IsNaN(a) /\ ~IsNaN(b) /\ a < b

NumericTypes == {"float", "float64"}

\* Deviation with the two directions exchanged
DeviationDirectionSwapped(joint_name, measured_angle, numeric) ==
    LET min_angle == angle_ranges[joint_name][1]
        max_angle == angle_ranges[joint_name][2]
    IN  IF measured_angle < min_angle
            THEN IF min_angle = 0
                    THEN [raised |-> numeric = "float", percentage |-> 100,
                          direction |-> "high"]
                    ELSE [raised |-> FALSE,
                          percentage |->
                              Min(100, (200 * (min_angle - measured_angle)) \div min_angle),
                          direction |-> "high"]
        ELSE IF measured_angle > max_angle
            THEN [raised |-> FALSE,
                  percentage |->
                      Min(100, (200 * (measured_angle - max_angle)) \div max_angle),
                  direction |-> "low"]
        ELSE [raised |-> FALSE, percentage |-> 0, direction |-> "none"]

\* Lines 176-191: the deviation percentage and its direction
Deviation(joint_name, measured_angle, numeric) ==
    LET min_angle == angle_ranges[joint_name][1]
        max_angle == angle_ranges[joint_name][2]
    IN  IF Less(measured_angle, min_angle)
            THEN IF min_angle = 0
                    THEN [raised |-> numeric = "float", percentage |-> 100,
                          direction |-> "low"]
                    ELSE [raised |-> FALSE,
                          percentage |->
                              Min(100, (200 * (min_angle - measured_angle)) \div min_angle),
                          direction |-> "low"]
        ELSE IF Less(max_angle, measured_angle)
            THEN [raised |-> FALSE,
                  percentage |->
                      Min(100, (200 * (measured_angle - max_angle)) \div max_angle),
                  direction |-> "high"]
        ELSE [raised |-> FALSE, percentage |-> 0, direction |-> "none"]

\* JointFeedback with a deviation of exactly 20 percent counted as significant
JointFeedbackInclusive(joint_name, dev) ==
    IF dev.percentage >= 20 /\ dev.direction # "none"
        THEN <<feedback_rules[joint_name][dev.direction]>>
        ELSE <<>>

\* Lines 211-213: the feedback a joint adds
JointFeedback(joint_name, dev) ==
    IF dev.percentage > 20 /\ dev.direction # "none"
        THEN <<feedback_rules[joint_name][dev.direction]>>
        ELSE <<>>

\* Lines 168-191: the deviation of every joint the loop visits; a joint that
\* is not in the sample is skipped, and so is a name that is not a joint.
SampleDeviations(sample, numeric) ==
    Tabulate([n \in DOMAIN sample \cap Joints |-> Deviation(n, sample[n], numeric)])

\* The visited joints, as indices of the iteration order
Present(devs) == {i \in 1..Len(JointOrder) : JointOrder[i] \in DOMAIN devs}

\* The joints whose loop body runs to its end: those visited before the first
\* joint at which line 182 raises
Completed(devs) ==
    LET raising == {i \in Present(devs) : devs[JointOrder[i]].raised}
    IN  {i \in Present(devs) : \A r \in raising : i < r}

\* Lines 194-196: the simulation after the loop holds the input and the
\* output of the last joint it evaluated
SimAfter(sim, devs) ==
    LET done == Completed(devs)
    IN  IF done = {} THEN sim
        ELSE LET last == CHOOSE i \in done : \A k \in done : k <= i
                 pct == devs[JointOrder[last]].percentage
             IN  [input |-> pct, output |-> InferTable[pct]]

\* Lines 193-203: joint_scores[joint_name] = joint_score
JointScores(devs) == [n \in DOMAIN devs |-> InferTable[devs[n].percentage]]

\* Lines 204-209: deviations[joint_name]
Deviations(sample, devs) ==
    [n \in DOMAIN devs |->
        [percentage |-> devs[n].percentage,
         direction |-> devs[n].direction,
         measured |-> sample[n],
         ideal |-> ideal_angles[n]]]

\* OverallScore divided by the total weight of the visited joints
OverallScoreNormalised(i, devs) ==
    LET parts[j \in 1..(Len(JointOrder) + 1)] ==
            IF j > Len(JointOrder) THEN <<0, 0>>
            ELSE IF JointOrder[j] \in DOMAIN devs
                THEN <<parts[j + 1][1]
                          + InferTable[devs[JointOrder[j]].percentage]
                              * joint_weights[JointOrder[j]],
                       parts[j + 1][2] + joint_weights[JointOrder[j]]>>
                ELSE parts[j + 1]
    IN  IF parts[i][2] = 0 THEN 0 ELSE (parts[i][1] * WScale) \div parts[i][2]

\* OverallScore with every weight taken as 1.0
RECURSIVE OverallScoreUnweighted(_, _)
OverallScoreUnweighted(i, devs) ==
    IF i > Len(JointOrder) THEN 0
    ELSE (IF JointOrder[i] \in DOMAIN devs
             THEN InferTable[devs[JointOrder[i]].percentage] * WScale
             ELSE 0)
         + OverallScoreUnweighted(i + 1, devs)

\* OverallScore with an absent joint counted as a joint at its ideal angle
RECURSIVE OverallScoreAbsentIdeal(_, _)
OverallScoreAbsentIdeal(i, devs) ==
    IF i > Len(JointOrder) THEN 0
    ELSE (IF JointOrder[i] \in DOMAIN devs
             THEN InferTable[devs[JointOrder[i]].percentage] * joint_weights[JointOrder[i]]
             ELSE InferTable[0] * joint_weights[JointOrder[i]])
         + OverallScoreAbsentIdeal(i + 1, devs)

\* Lines 198-200: overall_score += joint_score * self.joint_weights[joint_name],
\* over the joints i .. 8, in 1/(QScale * WScale)
RECURSIVE OverallScore(_, _)
OverallScore(i, devs) ==
    IF i > Len(JointOrder) THEN 0
    ELSE (IF JointOrder[i] \in DOMAIN devs
             THEN InferTable[devs[JointOrder[i]].percentage] * joint_weights[JointOrder[i]]
             ELSE 0)
         + OverallScore(i + 1, devs)

\* Lines 211-213: feedback_items of the joints i .. 8, in iteration order
RECURSIVE FeedbackItems(_, _)
FeedbackItems(i, devs) ==
    IF i > Len(JointOrder) THEN <<>>
    ELSE (IF JointOrder[i] \in DOMAIN devs
             THEN JointFeedback(JointOrder[i], devs[JointOrder[i]])
             ELSE <<>>)
         \o FeedbackItems(i + 1, devs)

\* Lines 153-159: the result for an empty sample
NoPoseAnalysis ==
    [score |-> 0, feedback |-> <<NoPoseFeedback>>,
     joint_scores |-> EmptyDict, deviations |-> EmptyDict]

\* The value of analysis while no call has returned
NoAnalysis ==
    [score |-> 0, feedback |-> <<>>, joint_scores |-> EmptyDict, deviations |-> EmptyDict]

\* FrameAnalysis without the positive message
FrameAnalysisNoPositive(sample, devs) ==
    [score |-> OverallScore(1, devs),
     feedback |-> FeedbackItems(1, devs),
     joint_scores |-> JointScores(devs),
     deviations |-> Deviations(sample, devs)]

\* Lines 215-225: the positive message and the returned dictionary
FrameAnalysis(sample, devs) ==
    LET feedback_items == FeedbackItems(1, devs)
    IN  [score |-> OverallScore(1, devs),
         feedback |-> IF feedback_items = <<>> THEN <<PositiveFeedback>>
                      ELSE feedback_items,
         joint_scores |-> JointScores(devs),
         deviations |-> Deviations(sample, devs)]

\* Lines 161-225: the loop over self.ideal_angles and the return
PostureLoop(sim, sample, numeric) ==
    LET devs == SampleDeviations(sample, numeric)
        raised == \E n \in DOMAIN devs : devs[n].raised
    IN  [raised |-> raised, sim |-> SimAfter(sim, devs),
         result |-> IF raised THEN NoAnalysis ELSE FrameAnalysis(sample, devs)]

\* analyze_posture without the empty-sample return of lines 153-159
analyze_posture_no_guard(sim, sample, numeric) == PostureLoop(sim, sample, numeric)

\* analyze_posture: what the call does to posture_sim and what it returns
analyze_posture(sim, sample, numeric) ==
    IF sample = EmptyDict
        THEN [raised |-> FALSE, sim |-> sim, result |-> NoPoseAnalysis]
        ELSE PostureLoop(sim, sample, numeric)

(***************************************************************************)
(* The samples handed to analyze_posture.                                  *)
(***************************************************************************)
\* How many joints of a sample differ from the empty sample or from the
\* perfect stance, and how many probe angles each joint takes
MaxChanged == 2
NumProbes == 3

\* A joint name that is not in the tables
UnknownJoint == "head"

JointNames == Joints \cup {UnknownJoint}

\* Scenario "perfect stance": every joint at its ideal angle
PerfectStance == ideal_angles

\* The probe angles of a joint, by kind: half its maximum above the maximum
\* (the scenario's left_shoulder 90.0), -5 degrees, a tenth of its minimum
\* below the minimum, 12% of its maximum above the maximum, 38% of its minimum
\* below the minimum
ProbeAngle(joint_name, kind) ==
    LET min_angle == angle_ranges[joint_name][1]
        max_angle == angle_ranges[joint_name][2]
    IN  CASE kind = 1 -> max_angle + max_angle \div 2
          [] kind = 2 -> -50
          [] kind = 3 -> min_angle - min_angle \div 10
          [] kind = 4 -> max_angle + (3 * max_angle) \div 25
          [] OTHER -> min_angle - (19 * min_angle) \div 50

Probes(name) ==
    IF name = UnknownJoint THEN {450}
    ELSE {ideal_angles[name], NaN}
            \cup {ProbeAngle(name, k) : k \in 1..Min(NumProbes, 5)}

Changed(sample, base) ==
    {n \in JointNames :
        \/ (n \in DOMAIN sample) # (n \in DOMAIN base)
        \/ n \in DOMAIN sample /\ n \in DOMAIN base /\ sample[n] # base[n]}

InFamily(sample) ==
    \/ Cardinality(Changed(sample, EmptyDict)) <= MaxChanged
    \/ Cardinality(Changed(sample, PerfectStance)) <= MaxChanged

Put(sample, name, angle) ==
    [n \in DOMAIN sample \cup {name} |-> IF n = name THEN angle ELSE sample[n]]

Remove(sample, name) == [n \in DOMAIN sample \ {name} |-> sample[n]]

(***************************************************************************)
(* analyze_stability.                                                      *)
(***************************************************************************)
\* Lines 286-289: the joint names of the sequence
SequenceJointNames(seq) == UNION {DOMAIN seq[k] : k \in 1..Len(seq)}

\* The orders in which `for joint in joint_names` may visit a set of names
Orders(names) ==
    {o \in [1..Cardinality(names) -> names] :
        \A i, j \in 1..Cardinality(names) : i # j => o[i] # o[j]}

\* Lines 294-295: the count, the sum and the sum of squares of the values of
\* a joint over the samples k .. Len(seq) that hold it with a value that is
\* not NaN
RECURSIVE ValueSums(_, _, _)
ValueSums(joint, seq, k) ==
    IF k > Len(seq) THEN <<0, 0, 0>>
    ELSE LET rest == ValueSums(joint, seq, k + 1)
         IN  IF joint \in DOMAIN seq[k] /\ ~IsNaN(seq[k][joint])
                THEN <<rest[1] + 1, rest[2] + seq[k][joint],
                       rest[3] + seq[k][joint] * seq[k][joint]>>
                ELSE rest

\* The largest r in lo .. hi with r * r <= n
RECURSIVE SqrtBetween(_, _, _)
SqrtBetween(n, lo, hi) ==
    IF lo = hi THEN lo
    ELSE LET mid == (lo + hi + 1) \div 2
         IN  IF mid * mid <= n THEN SqrtBetween(n, mid, hi)
             ELSE SqrtBetween(n, lo, mid - 1)

Isqrt(n) == SqrtBetween(n, 0, Min(n, 46340))

\* a / b rounded towards zero, for b # 0
SignedDiv(a, b) ==
    IF (a < 0) = (b < 0)
        THEN (IF a < 0 THEN -a ELSE a) \div (IF b < 0 THEN -b ELSE b)
        ELSE -((IF a < 0 THEN -a ELSE a) \div (IF b < 0 THEN -b ELSE b))

\* Lines 297-312: mean and std_dev (degrees, in 1/VScale) and variation_pct
\* (percent, in 1/VScale) of a joint.  With n values of sum s and sum of
\* squares q, the mean is s / n and the population standard deviation is
\* sqrt(n * q - s * s) / n.
JointVariation(joint, seq) ==
    LET sums == ValueSums(joint, seq, 1)
        n == sums[1]
        s == sums[2]
        root == Isqrt(n * sums[3] - s * s)
    IN  [mean |-> SignedDiv(s * VScale, n * AngleScale),
         std_dev |-> (root * VScale) \div (n * AngleScale),
         variation_pct |->
            IF s # 0 THEN SignedDiv(100 * VScale * root, s)
            ELSE (100 * VScale * root) \div (n * AngleScale)]

\* Lines 292-318: variations of every joint name of the sequence that has a
\* value (line 297)
Variations(seq) ==
    Tabulate([joint \in {n \in SequenceJointNames(seq) : ValueSums(n, seq, 1)[1] > 0}
                 |-> JointVariation(joint, seq)])

\* IsStable with the comparison turned round
IsStableInverted(var_info) == var_info.variation_pct >= 5 * VScale

\* Lines 314-318: a joint is stable when its variation is below 5 percent
IsStable(var_info) == var_info.variation_pct < 5 * VScale

\* The names of order that have a variation and are stable (or unstable), in
\* that order
RECURSIVE Classified(_, _, _, _)
Classified(order, variations, stable, i) ==
    IF i > Len(order) THEN <<>>
    ELSE (IF order[i] \in DOMAIN variations
                /\ IsStable(variations[order[i]]) = stable
             THEN <<order[i]>> ELSE <<>>)
         \o Classified(order, variations, stable, i + 1)

\* WeightedSums with a name that is no joint weighted 0.1
RECURSIVE WeightedSumsEveryName(_, _, _)
WeightedSumsEveryName(order, variations, i) ==
    IF i > Len(order) THEN <<0, 0>>
    ELSE LET rest == WeightedSumsEveryName(order, variations, i + 1)
             weight == IF order[i] \in Joints THEN joint_weights[order[i]] ELSE 10
         IN  IF order[i] \in DOMAIN variations
                THEN <<rest[1] + variations[order[i]].variation_pct * weight,
                       rest[2] + weight>>
                ELSE rest

\* Lines 322-329: weighted_variation and total_weight over the joints of the
\* tables, from position i of order on
RECURSIVE WeightedSums(_, _, _)
WeightedSums(order, variations, i) ==
    IF i > Len(order) THEN <<0, 0>>
    ELSE LET rest == WeightedSums(order, variations, i + 1)
         IN  IF order[i] \in Joints /\ order[i] \in DOMAIN variations
                THEN <<rest[1] + variations[order[i]].variation_pct * joint_weights[order[i]],
                       rest[2] + joint_weights[order[i]]>>
                ELSE rest

\* Lines 320-338: the overall stability score, in 1/VScale
StabilityScore(order, variations) ==
    LET sums == WeightedSums(order, variations, 1)
    IN  IF sums[2] > 0
            THEN Max(0, 100 * VScale - 5 * SignedDiv(sums[1], sums[2]))
            ELSE 0

\* Lines 273-279: the result for an empty sequence
EmptyStability ==
    [stability_score |-> 0, variations |-> EmptyDict,
     stable_joints |-> <<>>, unstable_joints |-> <<>>]

\* analyze_stability, with the order in which the set joint_names is visited
analyze_stability(seq, order) ==
    IF seq = <<>> THEN EmptyStability
    ELSE LET variations == Variations(seq)
         IN  [stability_score |-> StabilityScore(order, variations),
              variations |-> variations,
              stable_joints |-> Classified(order, variations, TRUE, 1),
              unstable_joints |-> Classified(order, variations, FALSE, 1)]

(***************************************************************************)
(* generate_session_summary.  A frame analysis is read through its fields   *)
(* score (in 1/(QScale * WScale)), joint_scores (in 1/QScale) and feedback. *)
(***************************************************************************)
\* Resolution of overall_score: 0.7 * score is 7 * score tenths
SummaryScale == 10 * QScale * WScale

\* Lines 360-368: the summary of an empty list of analyses
EmptySummary ==
    [overall_score |-> 0, posture_quality |-> "N/A", stability |-> "N/A",
     key_strengths |-> <<>>, areas_to_improve |-> <<>>, recommendations |-> <<>>]

\* The value of summary while generate_session_summary has not returned
NoSummary ==
    [overall_score |-> -1, posture_quality |-> "", stability |-> "",
     key_strengths |-> <<>>, areas_to_improve |-> <<>>, recommendations |-> <<>>]

\* Line 371: the sum of analysis['score'] from position i on
RECURSIVE SumScores(_, _)
SumScores(posture_analyses, i) ==
    IF i > Len(posture_analyses) THEN 0
    ELSE posture_analyses[i].score + SumScores(posture_analyses, i + 1)

\* OverallScoreOf with the two shares exchanged
OverallScoreOfSwapped(posture_analyses, stability_score) ==
    (3 * SumScores(posture_analyses, 1)
        + 7 * stability_score * (SummaryScale \div (10 * VScale)) * Len(posture_analyses))
    \div Len(posture_analyses)

\* Lines 371-377: overall_score = 0.7 * avg_posture_score + 0.3 * stability_score,
\* in 1/SummaryScale
OverallScoreOf(posture_analyses, stability_score) ==
    (7 * SumScores(posture_analyses, 1)
        + 3 * stability_score * (SummaryScale \div (10 * VScale)) * Len(posture_analyses))
    \div Len(posture_analyses)

\* Category with the breakpoints excluded
CategoryExclusive(value, unit, labels) ==
    IF value > 85 * unit THEN labels[1]
    ELSE IF value > 70 * unit THEN labels[2]
    ELSE IF value > 50 * unit THEN labels[3]
    ELSE labels[4]

\* Lines 380-397: the label of a value (in 1/unit) by the breakpoints 85, 70, 50
Category(value, unit, labels) ==
    IF value >= 85 * unit THEN labels[1]
    ELSE IF value >= 70 * unit THEN labels[2]
    ELSE IF value >= 50 * unit THEN labels[3]
    ELSE labels[4]

\* Lines 380-387
PostureQualityLabels == <<"Excellent", "Good", "Fair", "Needs Improvement">>

\* Lines 390-397
StabilityLabels == <<"Very Stable", "Stable", "Moderately Stable", "Unstable">>

\* joint.replace('_', ' ').title()
TitleName ==
    [knees |-> "Knees", hips |-> "Hips", left_shoulder |-> "Left Shoulder",
     right_shoulder |-> "Right Shoulder", left_elbow |-> "Left Elbow",
     right_elbow |-> "Right Elbow", wrists |-> "Wrists", neck |-> "Neck",
     head |-> "Head"]

\* The first n elements of seq: seq[:n]
Take(seq, n) == SubSeq(seq, 1, Min(n, Len(seq)))

\* seq without the repetitions of an element after its first occurrence
RECURSIVE Distinct(_, _)
Distinct(seq, i) ==
    IF i > Len(seq) THEN <<>>
    ELSE (IF \E k \in 1..(i - 1) : seq[k] = seq[i] THEN <<>> ELSE <<seq[i]>>)
         \o Distinct(seq, i + 1)

\* Lines 404-409: the keys of good_joint_scores in their insertion order; the
\* joint_scores of an analysis are in the order of the tables
RECURSIVE ScoredJoints(_, _)
ScoredJoints(posture_analyses, i) ==
    IF i > Len(posture_analyses) THEN <<>>
    ELSE LET Scored(n) == n \in DOMAIN posture_analyses[i].joint_scores
         IN  SelectSeq(JointOrder, Scored) \o ScoredJoints(posture_analyses, i + 1)

\* Lines 411-412: <<number, sum>> of the scores of joint from position i on
RECURSIVE JointScoreSums(_, _, _)
JointScoreSums(joint, posture_analyses, i) ==
    IF i > Len(posture_analyses) THEN <<0, 0>>
    ELSE LET rest == JointScoreSums(joint, posture_analyses, i + 1)
         IN  IF joint \in DOMAIN posture_analyses[i].joint_scores
                THEN <<rest[1] + 1, rest[2] + posture_analyses[i].joint_scores[joint]>>
                ELSE rest

\* Lines 411-415: "Strong ... Position" for the joints of average score >= 85
RECURSIVE StrongJoints(_, _, _)
StrongJoints(joints, posture_analyses, i) ==
    IF i > Len(joints) THEN <<>>
    ELSE LET sums == JointScoreSums(joints[i], posture_analyses, 1)
         IN  (IF sums[2] >= 85 * QScale * sums[1]
                 THEN <<"Strong " \o TitleName[joints[i]] \o " Position">>
                 ELSE <<>>)
             \o StrongJoints(joints, posture_analyses, i + 1)

\* Lines 418-421: "Stable ..." for a stable joint whose title is not an
\* element of strengths
RECURSIVE WithStableJoints(_, _, _)
WithStableJoints(strengths, stable_joints, i) ==
    IF i > Len(stable_joints) THEN strengths
    ELSE WithStableJoints(
            IF \E k \in 1..Len(strengths) : strengths[k] = TitleName[stable_joints[i]]
                THEN strengths
                ELSE Append(strengths, "Stable " \o TitleName[stable_joints[i]]),
            stable_joints, i + 1)

\* Lines 424-429: every feedback text of every analysis, in order
RECURSIVE AllFeedback(_, _)
AllFeedback(posture_analyses, i) ==
    IF i > Len(posture_analyses) THEN <<>>
    ELSE posture_analyses[i].feedback \o AllFeedback(posture_analyses, i + 1)

\* feedback_counter[text]
FeedbackCount(text, all) == Cardinality({k \in 1..Len(all) : all[k] = text})

\* Lines 432-434: sorted(..., key=count, reverse=True), a stable sort: texts
\* of equal count keep the order of their first occurrence
RECURSIVE SortedFeedback(_, _, _, _)
SortedFeedback(sorted, keys, all, i) ==
    IF i > Len(keys) THEN sorted
    ELSE LET ahead ==
                 Cardinality({k \in 1..Len(sorted) :
                     FeedbackCount(sorted[k], all) >= FeedbackCount(keys[i], all)})
         IN  SortedFeedback(
                 SubSeq(sorted, 1, ahead) \o <<keys[i]>>
                     \o SubSeq(sorted, ahead + 1, Len(sorted)),
                 keys, all, i + 1)

\* "Great posture" in feedback: of the texts of the analyzer only the
\* positive message holds these words
IsPositive(text) == text = PositiveFeedback

\* Lines 437-439: the three most frequent texts, the positive one left out
FrequentFeedback(posture_analyses) ==
    LET all == AllFeedback(posture_analyses, 1)
        NotPositive(text) == ~IsPositive(text)
    IN  SelectSeq(Take(SortedFeedback(<<>>, Distinct(all, 1), all, 1), 3), NotPositive)

\* Lines 442-444: "Improve ... Stability" for every unstable joint
UnstableImprovements(unstable_joints) ==
    [k \in 1..Len(unstable_joints) |->
        "Improve " \o TitleName[unstable_joints[k]] \o " Stability"]

\* word in improvement.lower(): a feedback text and an "Improve ... Stability"
\* text hold the name of their joint and of no other
Mentions(improvement, joints) ==
    \E n \in joints :
        improvement \in {feedback_rules[n].low, feedback_rules[n].high,
                         "Improve " \o TitleName[n] \o " Stability"}

\* Lines 456-462: the recommendation an improvement brings
ImprovementAdvice(improvement) ==
    IF Mentions(improvement, {"left_shoulder", "right_shoulder"})
        THEN <<"Try shoulder strengthening exercises.">>
    ELSE IF Mentions(improvement, {"left_elbow", "right_elbow"})
        THEN <<"Practice elbow positioning with a training aid.">>
    ELSE IF Mentions(improvement, {"knees", "hips"})
        THEN <<"Work on lower body stability through balance exercises.">>
    ELSE <<>>

\* Lines 447-465
Recommendations(posture_quality, stability_category, improvements) ==
    LET basics ==
            IF posture_quality \in {"Needs Improvement", "Fair"}
                THEN <<"Focus on basic stance fundamentals before proceeding.">>
                ELSE <<>>
        steady ==
            IF stability_category \in {"Unstable", "Moderately Stable"}
                THEN <<"Practice holding your position steady for longer periods.">>
                ELSE <<>>
        first == IF Len(improvements) >= 1 THEN ImprovementAdvice(improvements[1]) ELSE <<>>
        second == IF Len(improvements) >= 2 THEN ImprovementAdvice(improvements[2]) ELSE <<>>
        recommendations == basics \o steady \o first \o second
    IN  IF recommendations = <<>>
            THEN <<"Continue practicing to maintain your excellent form.">>
            ELSE recommendations

\* Lines 347-475
generate_session_summary(posture_analyses, stability_analysis) ==
    IF posture_analyses = <<>> THEN EmptySummary
    ELSE LET stability_score == stability_analysis.stability_score
             overall_score == OverallScoreOf(posture_analyses, stability_score)
             posture_quality == Category(overall_score, SummaryScale, PostureQualityLabels)
             stability_category == Category(stability_score, VScale, StabilityLabels)
             strengths ==
                 WithStableJoints(
                     StrongJoints(Distinct(ScoredJoints(posture_analyses, 1), 1),
                                  posture_analyses, 1),
                     stability_analysis.stable_joints, 1)
             improvements ==
                 FrequentFeedback(posture_analyses)
                     \o UnstableImprovements(stability_analysis.unstable_joints)
         IN  [overall_score |-> overall_score,
              posture_quality |-> posture_quality,
              stability |-> stability_category,
              key_strengths |-> Take(strengths, 3),
              areas_to_improve |-> Take(improvements, 3),
              recommendations |->
                  Recommendations(posture_quality, stability_category, improvements)]

(***************************************************************************)
(* The samples recorded for analyze_stability.                             *)
(***************************************************************************)
\* The longest recorded sequence, the scenario apart
MaxFrames == 3

\* The two frames of the scenario "stability", then frames with negative
\* angles, with a name that is not a joint, with a joint of mean zero, and
\* with angles that are NaN
StabilityFrames ==
    {("knees" :> 1725) @@ ("hips" :> 1700),
     ("knees" :> 1725) @@ ("hips" :> 1900),
     ("knees" :> -100),
     ("knees" :> -200),
     (UnknownJoint :> 100),
     (UnknownJoint :> 300) @@ ("hips" :> 1800),
     ("right_shoulder" :> 100),
     ("right_shoulder" :> -100),
     ("knees" :> NaN) @@ ("hips" :> 1700),
     ("neck" :> NaN)}

\* Scenario "stability": 10 frames, knees constant at 172.5, hips
\* alternating 170 / 190
StabilityScenario ==
    [k \in 1..10 |->
        ("knees" :> 1725) @@ ("hips" :> IF k % 2 = 1 THEN 1700 ELSE 1900)]

IsPrefix(seq, of) ==
    /\ Len(seq) <= Len(of)
    /\ \A k \in 1..Len(seq) : seq[k] = of[k]

(***************************************************************************)
(* DataManager: the summary column of table sessions.  A JSON text is the   *)
(* sequence of its tokens: the punctuation, "str" before the characters of  *)
(* a string, "num" before the characters of a number.                       *)
(***************************************************************************)
Digits == <<"0", "1", "2", "3", "4", "5", "6", "7", "8", "9">>

\* The decimal digits of a natural number
RECURSIVE IntDigits(_)
IntDigits(n) ==
    IF n < 10 THEN <<Digits[n + 1]>>
    ELSE Append(IntDigits(n \div 10), Digits[(n % 10) + 1])

\* The digits after the point of a fraction f of unit: the shortest that
\* read back as f, and at least one
RECURSIVE FractionDigits(_, _)
FractionDigits(f, unit) ==
    IF unit = 1 THEN <<>>
    ELSE LET digit == (f * 10) \div unit
             rest == (f * 10) % unit
         IN  IF rest = 0 THEN <<Digits[digit + 1]>>
             ELSE <<Digits[digit + 1]>> \o FractionDigits(rest \div 10, unit \div 10)

\* FormatFloat that leaves out the digits after the first
FormatFloatShort(value) ==
    IntDigits(value \div SummaryScale) \o <<".">>
        \o <<Digits[((value % SummaryScale) * 10) \div SummaryScale + 1]>>

\* float.__repr__ of overall_score (in 1/SummaryScale), as json.dumps writes it
FormatFloat(value) ==
    IntDigits(value \div SummaryScale) \o <<".">>
        \o FractionDigits(value % SummaryScale, SummaryScale)

\* json.dumps of a list of strings
RECURSIVE DumpStrings(_, _)
DumpStrings(strings, i) ==
    IF i > Len(strings) THEN <<>>
    ELSE (IF i > 1 THEN <<",">> ELSE <<>>) \o <<"str", strings[i]>>
         \o DumpStrings(strings, i + 1)

\* json.dumps(summary): the keys in the order of the dict (posture_analyzer.py, lines 468-475);
\* the overall_score of the empty summary is the int 0
json_dumps(s) ==
    <<"{", "str", "overall_score", ":", "num">>
        \o (IF s = EmptySummary THEN IntDigits(0) ELSE FormatFloat(s.overall_score))
        \o <<",", "str", "posture_quality", ":", "str", s.posture_quality>>
        \o <<",", "str", "stability", ":", "str", s.stability>>
        \o <<",", "str", "key_strengths", ":", "[">>
        \o DumpStrings(s.key_strengths, 1) \o <<"]">>
        \o <<",", "str", "areas_to_improve", ":", "[">>
        \o DumpStrings(s.areas_to_improve, 1) \o <<"]">>
        \o <<",", "str", "recommendations", ":", "[">>
        \o DumpStrings(s.recommendations, 1) \o <<"]", "}">>

DigitValue(c) == CHOOSE d \in 0..9 : Digits[d + 1] = c

IsDigit(c) == \E d \in 0..9 : Digits[d + 1] = c

\* The number whose characters start at position i: its value in
\* 1/SummaryScale and the position after it.  unit is SummaryScale before the
\* point and the weight of the next digit after it.
RECURSIVE ParseNumber(_, _, _, _, _)
ParseNumber(tokens, i, value, unit, after_point) ==
    IF i <= Len(tokens) /\ IsDigit(tokens[i])
        THEN IF after_point
                THEN ParseNumber(tokens, i + 1,
                                 value + DigitValue(tokens[i]) * (unit \div 10),
                                 unit \div 10, TRUE)
                ELSE ParseNumber(tokens, i + 1,
                                 value * 10 + DigitValue(tokens[i]) * unit, unit, FALSE)
    ELSE IF i <= Len(tokens) /\ tokens[i] = "." /\ ~after_point
        THEN ParseNumber(tokens, i + 1, value, unit, TRUE)
    ELSE [value |-> value, next |-> i]

\* The list whose elements start at position i, up to its "]"
RECURSIVE ParseStrings(_, _, _)
ParseStrings(tokens, i, strings) ==
    IF tokens[i] = "]" THEN [value |-> strings, next |-> i + 1]
    ELSE IF tokens[i] = "," THEN ParseStrings(tokens, i + 1, strings)
    ELSE ParseStrings(tokens, i + 2, Append(strings, tokens[i + 1]))

\* The value that starts at position i
ParseValue(tokens, i) ==
    IF tokens[i] = "str" THEN [value |-> tokens[i + 1], next |-> i + 2]
    ELSE IF tokens[i] = "num" THEN ParseNumber(tokens, i + 1, 0, SummaryScale, FALSE)
    ELSE ParseStrings(tokens, i + 1, <<>>)

\* The members of an object from position i on, up to its "}"
RECURSIVE ParseMembers(_, _, _)
ParseMembers(tokens, i, members) ==
    IF tokens[i] = "}" THEN members
    ELSE IF tokens[i] = "," THEN ParseMembers(tokens, i + 1, members)
    ELSE LET parsed == ParseValue(tokens, i + 3)
         IN  ParseMembers(tokens, parsed.next, members @@ (tokens[i + 1] :> parsed.value))

\* json.loads of the text of an object
json_loads(tokens) == ParseMembers(tokens, 2, EmptyDict)

\* A row of table sessions as create_session inserts it: the columns that
\* update_session sets are NULL (None), written "NULL"; no summary text
NewSession ==
    [overall_score |-> -1, posture_quality |-> "NULL", stability |-> "NULL",
     summary |-> <<>>]

\* Lines 421-500: update_session(session_id, overall_score, posture_quality,
\* stability, summary) on an existing row
update_session(row, s) ==
    [overall_score |-> s.overall_score, posture_quality |-> s.posture_quality,
     stability |-> s.stability, summary |-> json_dumps(s)]

\* Lines 502-537: get_session of an existing row
get_session(row) ==
    IF row.summary # <<>> THEN [row EXCEPT !.summary = json_loads(row.summary)]
    ELSE row

(***************************************************************************)
(* The analyses given to generate_session_summary.                         *)
(***************************************************************************)
\* The longest list of frame analyses, the scenario apart
MaxAnalyses == 3

\* The fields of a frame analysis that generate_session_summary reads
SummaryInputOfFrame(a) ==
    [score |-> a.score, joint_scores |-> a.joint_scores, feedback |-> a.feedback]

\* The fields of a stability analysis that generate_session_summary reads
SummaryInputOfStability(st) ==
    [stability_score |-> st.stability_score,
     stable_joints |-> st.stable_joints, unstable_joints |-> st.unstable_joints]

\* The analysis of a frame whose eight joints all score q (in 1/QScale): a
\* joint scoring above infer(20) deviates by less than 20 percent and has no
\* message, a joint scoring below deviates by more and has one
UniformFrame(q) ==
    [score |-> q * WScale,
     joint_scores |-> [n \in Joints |-> q],
     feedback |->
        IF q > InferTable[20] THEN <<PositiveFeedback>>
        ELSE [k \in 1..Len(JointOrder) |-> feedback_rules[JointOrder[k]].high]]

\* The stability analysis of a sequence whose eight joints all vary by
\* (100 - score) / 5 percent (score in 1/VScale)
UniformStability(score) ==
    [stability_score |-> score,
     stable_joints |-> IF 100 * VScale - score < 25 * VScale THEN JointOrder ELSE <<>>,
     unstable_joints |-> IF 100 * VScale - score < 25 * VScale THEN <<>> ELSE JointOrder]

\* Frames scoring at and around the breakpoints, then the analyses of the
\* perfect stance, of the single bad joint and of a sample of two joints
SummaryFrames ==
    {UniformFrame(q) : q \in {50 * QScale, 70 * QScale, 80 * QScale, 85 * QScale}}
    \cup {SummaryInputOfFrame(
              analyze_posture([input |-> -1, output |-> -1], sample, "float64").result) :
            sample \in {PerfectStance,
                        Put(PerfectStance, "left_shoulder", 900),
                        ("knees" :> ideal_angles["knees"]) @@ ("hips" :> 0)}}

\* Stability analyses scoring at and just below the breakpoints, then those
\* of the scenario "stability", of a sequence of negative angles and of a
\* sequence with a name that is not a joint
SummaryStabilities ==
    {UniformStability(score) :
        score \in {4999, 50 * VScale, 60 * VScale, 6999, 70 * VScale, 8499, 85 * VScale}}
    \cup {SummaryInputOfStability(analyze_stability(StabilityScenario, <<"knees", "hips">>)),
          SummaryInputOfStability(
              analyze_stability(<<("knees" :> -200), ("knees" :> -100)>>, <<"knees">>)),
          SummaryInputOfStability(
              analyze_stability(<<(UnknownJoint :> 100),
                                  (UnknownJoint :> 300) @@ ("hips" :> 1800)>>,
                                <<UnknownJoint, "hips">>))}

\* Scenario "session summary": 5 frame analyses of score 80
SummaryScenario == [k \in 1..5 |-> UniformFrame(80 * QScale)]

(***************************************************************************)
(* Two threads in analyze_posture on one PostureAnalyzer.                  *)
(***************************************************************************)
Threads == {1, 2}

\* The samples the threads pass
ThreadSamples ==
    {EmptyDict,
     ("knees" :> ideal_angles["knees"]),
     ("knees" :> ProbeAngle("knees", 1)),
     ("knees" :> ideal_angles["knees"]) @@ ("hips" :> ProbeAngle("hips", 1))}

\* The position in ideal_angles of the first joint of the sample after
\* position i, 0 when there is none (lines 168-170)
NextJoint(sample, i) ==
    LET later == {j \in (i + 1)..Len(JointOrder) : JointOrder[j] \in DOMAIN sample}
    IN  IF later = {} THEN 0 ELSE CHOOSE j \in later : \A k \in later : j <= k

\* A thread that is not in analyze_posture
IdleThread ==
    [pc |-> "idle", sample |-> EmptyDict, joint |-> 0,
     joint_scores |-> EmptyDict, result |-> NoAnalysis]

\* Lines 198-225: the FrameAnalysis of a call whose joint scores were read
\* from posture_sim as joint_scores
ThreadResult(sample, joint_scores) ==
    LET devs == SampleDeviations(sample, "float64")
        weighted[j \in 1..(Len(JointOrder) + 1)] ==
            IF j > Len(JointOrder) THEN 0
            ELSE (IF JointOrder[j] \in DOMAIN joint_scores
                     THEN joint_scores[JointOrder[j]] * joint_weights[JointOrder[j]]
                     ELSE 0)
                 + weighted[j + 1]
    IN  [FrameAnalysis(sample, devs) EXCEPT
            !.score = weighted[1], !.joint_scores = joint_scores]

(***************************************************************************)
(* Recording and saving a session (LiveAnalysisWidget).  A session id is    *)
(* a number from 1 on, 0 stands for None.  A recorded frame is "pose" when  *)
(* it holds joint angles and "no_pose" when its joint_angles is empty.      *)
(***************************************************************************)
\* The sessions recorded and the frames of a recording
MaxSessions == 2
MaxRecorded == 2

FrameKinds == {"pose", "no_pose"}

\* The calls of _process_recorded_session that can raise
SaveFaults ==
    {"none", "add_session_data", "analyze_stability",
     "generate_session_summary", "update_session"}

\* The widget after __init__; save_outcome is "none" until _save_session has
\* run, then "completed" or the call that raised in it
InitialWidget ==
    [is_recording |-> FALSE, current_session_id |-> 0, recorded_frames |-> <<>>,
     save_enabled |-> FALSE, message |-> "none", feedback_error |-> FALSE,
     save_outcome |-> "none"]

\* The number of recorded frames that hold joint angles
Poses(frames) == Cardinality({k \in 1..Len(frames) : frames[k] = "pose"})

(***************************************************************************)
(* Operations on the analyzer.                                             *)
(***************************************************************************)
StabilityVars == <<joint_angles_sequence, stability_outcome, stability>>

PostureVars == <<posture_sim, joint_angles, outcome, analysis>>

InferVars == <<infer_inputs, infer_outputs>>

SummaryVars ==
    <<all_posture_analyses, summary_stability, summary_outcome, summary,
      stored_session, loaded_session>>

\* What the operations of each component leave alone
SaveVars == <<widget, video_thread, database>>

PeripheralVars == <<player, live, store, detector>>

OutsidePosture == <<StabilityVars, InferVars, SummaryVars, threads, SaveVars,
      PeripheralVars>>

OutsideStability == <<PostureVars, InferVars, SummaryVars, threads, SaveVars,
      PeripheralVars>>

OutsideInfer == <<PostureVars, StabilityVars, SummaryVars, threads, SaveVars,
      PeripheralVars>>

OutsideSummary == <<PostureVars, StabilityVars, InferVars, threads, SaveVars,
      PeripheralVars>>

OutsideThreads ==
    <<joint_angles, outcome, analysis, StabilityVars, InferVars, SummaryVars, SaveVars,
      PeripheralVars>>

OutsideSave ==
    <<PostureVars, StabilityVars, InferVars, SummaryVars, threads, PeripheralVars>>

\* self.posture_analyzer.analyze_posture(sample)
AnalyzePosture(sample, numeric) ==
    /\ InFamily(sample)
    /\ LET r == analyze_posture(posture_sim, sample, numeric)
       IN  /\ posture_sim' = r.sim
           /\ joint_angles' = sample
           /\ outcome' = IF r.raised THEN "ZeroDivisionError" ELSE "returned"
           /\ analysis' = r.result
    /\ UNCHANGED OutsidePosture

\* A frame without a pose
AnalyzeNoPose == \E numeric \in NumericTypes : AnalyzePosture(EmptyDict, numeric)

\* A frame in the perfect stance
AnalyzeStance == \E numeric \in NumericTypes : AnalyzePosture(PerfectStance, numeric)

\* A frame in which one joint has moved, appeared or disappeared
AnalyzeMoved ==
    \E name \in JointNames, numeric \in NumericTypes :
        \/ \E angle \in Probes(name) : AnalyzePosture(Put(joint_angles, name, angle), numeric)
        \/ /\ name \in DOMAIN joint_angles
           /\ AnalyzePosture(Remove(joint_angles, name), numeric)

\* self.recorded_frames: a frame with joint angles is recorded
RecordFrame ==
    /\ stability_outcome = "none"
    /\ \E frame \in StabilityFrames :
        /\ \/ Len(joint_angles_sequence) < MaxFrames
           \/ IsPrefix(Append(joint_angles_sequence, frame), StabilityScenario)
        /\ joint_angles_sequence' = Append(joint_angles_sequence, frame)
    /\ UNCHANGED <<stability_outcome, stability>>
    /\ UNCHANGED OutsideStability

\* self.posture_analyzer.analyze_stability(joint_angles_sequence)
AnalyzeStability ==
    /\ stability_outcome = "none"
    /\ \E order \in Orders(SequenceJointNames(joint_angles_sequence)) :
        stability' = analyze_stability(joint_angles_sequence, order)
    /\ stability_outcome' = "returned"
    /\ UNCHANGED joint_angles_sequence
    /\ UNCHANGED OutsideStability

\* The next recording starts
StartRecording ==
    /\ stability_outcome = "returned"
    /\ joint_angles_sequence' = <<>>
    /\ stability_outcome' = "none"
    /\ stability' = EmptyStability
    /\ UNCHANGED OutsideStability

(***************************************************************************)
(* core/video_processor.py, class VideoPlayer.  A session is the list of   *)
(* its frames; None and the empty list, which the code tells apart nowhere *)
(* (it only tests "not self.current_session"), are both <<>>.  A frame is  *)
(* [number, kind]; the value None is the record NoFrame.                   *)
(***************************************************************************)
\* The value None where a frame is expected
NoFrame == [number |-> -1, kind |-> "None"]

\* Lines 443-447: VideoPlayer.__init__; no method was called yet
InitialPlayer ==
    [current_session |-> <<>>, current_frame_index |-> 0, playing |-> FALSE,
     call |-> "__init__", position |-> 0, returned |-> NoFrame]

(***************************************************************************)
(* ui/live_analysis.py and core/video_processor.py: what a recording keeps. *)
(* analysis_results is the widget's list of live analyses, thread_frames    *)
(* the VideoThread's recorded_frames, recorded_frames the widget's copy     *)
(* after the recording stopped, session_data the rows written for the       *)
(* session.                                                                 *)
(***************************************************************************)
\* live_analysis.py lines 72-81 and video_processor.py lines 331-332
InitialLive ==
    [is_recording |-> FALSE, analysis_results |-> <<>>, thread_frames |-> <<>>,
     recorded_frames |-> <<>>, session_data |-> <<>>]

(***************************************************************************)
(* core/data_manager.py: the tables users, sessions, session_data and      *)
(* settings as sets of rows, with the AUTOINCREMENT counters of their keys. *)
(***************************************************************************)
\* Lines 42-134: initialize_database creates the tables, empty
InitialStore ==
    [users |-> {}, sessions |-> {}, session_data |-> {}, settings |-> {},
     last_user_id |-> 0, last_session_id |-> 0, last_data_id |-> 0,
     call |-> [name |-> "initialize_database", id |-> 0], returned |-> FALSE]

(***************************************************************************)
(* core/audio_detector.py.  Time is counted in ticks of half the cooldown;  *)
(* the clock starts late enough for the first detection to pass the test    *)
(* of line 208, as time.time() does.  callbacks holds the time of every     *)
(* invocation of detection_callback, caller the last method the owner of    *)
(* the detector called and that has returned, main where the owner is       *)
(* ("join" inside stop, waiting at line 101).                               *)
(***************************************************************************)
\* Line 61: detection_cooldown = 1.0, in ticks
CooldownTicks == 2

\* The processor threads the detector can start
MaxProcessors == 2

Processors == 1..MaxProcessors

\* A thread that was not started, or has left _processor_loop
NoProcessor == [pc |-> "none", audio_data |-> "none", current_time |-> 0]

\* Lines 30-63: AudioDetector.__init__
InitialDetector ==
    [is_running |-> FALSE, is_listening |-> FALSE, stream |-> FALSE,
     audio_queue |-> <<>>, processor_thread |-> 0, last_detection_time |-> 0,
     processors |-> [t \in Processors |-> NoProcessor],
     now |-> CooldownTicks, callbacks |-> <<>>,
     caller |-> "__init__", main |-> "idle", join_start |-> 0]

\* The state of the components around the analyzer after construction
InitPeripherals ==
    /\ player = InitialPlayer
    /\ live = InitialLive
    /\ store = InitialStore
    /\ detector = InitialDetector

Init ==
    /\ posture_sim = [input |-> -1, output |-> -1]
    /\ joint_angles = EmptyDict
    /\ outcome = "none"
    /\ analysis = NoAnalysis
    /\ joint_angles_sequence = <<>>
    /\ stability_outcome = "none"
    /\ stability = EmptyStability
    /\ infer_inputs = <<0, 0>>
    /\ infer_outputs = <<>>
    /\ all_posture_analyses = <<>>
    /\ summary_stability = SummaryInputOfStability(EmptyStability)
    /\ summary_outcome = "none"
    /\ summary = NoSummary
    /\ stored_session = NewSession
    /\ loaded_session = NewSession
    /\ threads = [t \in Threads |-> IdleThread]
    /\ widget = InitialWidget
    /\ video_thread = [recording |-> FALSE, recorded_frames |-> <<>>]
    /\ database = [sessions |-> 0,
                   session_data |-> [id \in 1..MaxSessions |-> 0],
                   summary |-> [id \in 1..MaxSessions |-> FALSE]]
    /\ InitPeripherals

Next == AnalyzeNoPose \/ AnalyzeStance \/ AnalyzeMoved

Spec == Init /\ [][Next]_vars

NextStability == RecordFrame \/ AnalyzeStability \/ StartRecording

SpecStability == Init /\ [][NextStability]_vars

\* all_posture_analyses.append(analysis)
AppendAnalysis ==
    /\ summary_outcome = "none"
    /\ \E a \in SummaryFrames :
        /\ \/ Len(all_posture_analyses) < MaxAnalyses
           \/ IsPrefix(Append(all_posture_analyses, a), SummaryScenario)
        /\ all_posture_analyses' = Append(all_posture_analyses, a)
    /\ UNCHANGED <<summary_stability, summary_outcome, summary,
                   stored_session, loaded_session>>
    /\ UNCHANGED OutsideSummary

\* self.posture_analyzer.generate_session_summary(all_posture_analyses,
\* stability_analysis)
GenerateSummary ==
    /\ summary_outcome = "none"
    /\ \E st \in SummaryStabilities :
        /\ summary_stability' = st
        /\ summary' = generate_session_summary(all_posture_analyses, st)
    /\ summary_outcome' = "returned"
    /\ UNCHANGED <<all_posture_analyses, stored_session, loaded_session>>
    /\ UNCHANGED OutsideSummary

\* The next recorded session is processed
NextSession ==
    /\ summary_outcome = "returned"
    /\ all_posture_analyses' = <<>>
    /\ summary_stability' = SummaryInputOfStability(EmptyStability)
    /\ summary_outcome' = "none"
    /\ summary' = NoSummary
    /\ stored_session' = NewSession
    /\ loaded_session' = NewSession
    /\ UNCHANGED OutsideSummary

\* self.data_manager.update_session(self.current_session_id,
\* overall_score=..., posture_quality=..., stability=..., summary=summary)
UpdateSession ==
    /\ summary_outcome = "returned"
    /\ stored_session' = update_session(stored_session, summary)
    /\ UNCHANGED <<all_posture_analyses, summary_stability, summary_outcome, summary,
                   loaded_session>>
    /\ UNCHANGED OutsideSummary

\* self.data_manager.get_session(session_id) on the updated row
GetSession ==
    /\ stored_session # NewSession
    /\ loaded_session' = get_session(stored_session)
    /\ UNCHANGED <<all_posture_analyses, summary_stability, summary_outcome, summary,
                   stored_session>>
    /\ UNCHANGED OutsideSummary

NextSummary ==
    AppendAnalysis \/ GenerateSummary \/ NextSession \/ UpdateSession \/ GetSession

SpecSummary == Init /\ [][NextSummary]_vars

\* Thread t calls analyze_posture(sample): lines 153-165, up to the first
\* joint of the sample
ThreadCall(t) ==
    /\ threads[t].pc = "idle"
    /\ \E sample \in ThreadSamples :
        LET first == NextJoint(sample, 0)
            called == [IdleThread EXCEPT !.sample = sample, !.joint = first]
        IN  threads' =
                [threads EXCEPT ![t] =
                    IF sample = EmptyDict
                        THEN [called EXCEPT !.pc = "done", !.result = NoPoseAnalysis]
                    ELSE IF first = 0
                        THEN [called EXCEPT
                                 !.pc = "done",
                                 !.result = ThreadResult(sample, called.joint_scores)]
                    ELSE [called EXCEPT !.pc = "input"]]
    /\ UNCHANGED posture_sim
    /\ UNCHANGED OutsideThreads

\* Line 194: self.posture_sim.input['deviation'] = deviation_pct
ThreadSetInput(t) ==
    /\ threads[t].pc = "input"
    /\ posture_sim' =
        [posture_sim EXCEPT
            !.input = Deviation(JointOrder[threads[t].joint],
                                threads[t].sample[JointOrder[threads[t].joint]],
                                "float64").percentage]
    /\ threads' = [threads EXCEPT ![t].pc = "compute"]
    /\ UNCHANGED OutsideThreads

\* Line 195: self.posture_sim.compute()
ThreadCompute(t) ==
    /\ threads[t].pc = "compute"
    /\ posture_sim' = [posture_sim EXCEPT !.output = InferTable[posture_sim.input]]
    /\ threads' = [threads EXCEPT ![t].pc = "output"]
    /\ UNCHANGED OutsideThreads

\* Lines 196-213: joint_score = self.posture_sim.output['quality'] and the
\* rest of the loop body, then the next joint of the sample or lines 215-225
ThreadReadOutput(t) ==
    /\ threads[t].pc = "output"
    /\ LET self == threads[t]
           scores == (JointOrder[self.joint] :> posture_sim.output) @@ self.joint_scores
           next == NextJoint(self.sample, self.joint)
       IN  threads' =
               [threads EXCEPT ![t] =
                   IF next = 0
                       THEN [self EXCEPT !.pc = "done", !.joint_scores = scores,
                                         !.result = ThreadResult(self.sample, scores)]
                       ELSE [self EXCEPT !.pc = "input", !.joint_scores = scores,
                                         !.joint = next]]
    /\ UNCHANGED posture_sim
    /\ UNCHANGED OutsideThreads

\* The caller of thread t has taken the returned FrameAnalysis
ThreadReturn(t) ==
    /\ threads[t].pc = "done"
    /\ threads' = [threads EXCEPT ![t] = IdleThread]
    /\ UNCHANGED posture_sim
    /\ UNCHANGED OutsideThreads

NextThreads ==
    \E t \in Threads :
        \/ ThreadCall(t)
        \/ ThreadSetInput(t)
        \/ ThreadCompute(t)
        \/ ThreadReadOutput(t)
        \/ ThreadReturn(t)

SpecThreads == Init /\ [][NextThreads]_vars

\* _toggle_recording while not recording: _start_recording
StartSessionRecording ==
    /\ ~widget.is_recording
    /\ database.sessions < MaxSessions
    /\ widget' = [widget EXCEPT !.is_recording = TRUE, !.save_enabled = FALSE,
                                !.current_session_id = database.sessions + 1,
                                !.save_outcome = "none"]
    /\ video_thread' = [recording |-> TRUE, recorded_frames |-> <<>>]
    /\ database' = [database EXCEPT !.sessions = database.sessions + 1]
    /\ UNCHANGED OutsideSave

\* VideoThread.run while recording: self.recorded_frames.append(...)
RecordSessionFrame ==
    /\ video_thread.recording
    /\ Len(video_thread.recorded_frames) < MaxRecorded
    /\ \E kind \in FrameKinds :
        video_thread' =
            [video_thread EXCEPT !.recorded_frames = Append(@, kind)]
    /\ UNCHANGED <<widget, database>>
    /\ UNCHANGED OutsideSave

\* _toggle_recording while recording: _stop_recording
StopSessionRecording ==
    /\ widget.is_recording
    /\ widget' = [widget EXCEPT !.is_recording = FALSE, !.save_enabled = TRUE,
                                !.recorded_frames = video_thread.recorded_frames]
    /\ video_thread' = [video_thread EXCEPT !.recording = FALSE]
    /\ UNCHANGED database
    /\ UNCHANGED OutsideSave

\* The save button: _save_session, with _process_recorded_session and
\* _validate_session_data.  fault is the call that raises, raising_pose the
\* frame with joint angles at which add_session_data raises.
SaveSession(fault, raising_pose) ==
    /\ widget.save_enabled
    /\ LET id == widget.current_session_id
           frames == widget.recorded_frames
           \* lines 617-636: the rows add_session_data inserts before a raise
           added == IF fault = "add_session_data" THEN raising_pose - 1
                    ELSE Poses(frames)
           \* lines 667-669: the except clause of _process_recorded_session
           caught == fault # "none"
           \* lines 919-923: _validate_session_data finds rows or not
           rows == database.session_data[id] + added
       IN  IF id = 0
               THEN /\ fault = "none"
                    /\ widget' = [widget EXCEPT !.message = "No Session"]
                    /\ UNCHANGED database
               ELSE /\ fault # "none" => frames # <<>>
                    /\ fault = "add_session_data" => raising_pose \in 1..Poses(frames)
                    /\ fault # "add_session_data" => raising_pose = 0
                    /\ database' =
                        [database EXCEPT
                            !.session_data[id] = rows,
                            !.summary[id] = fault = "none" /\ frames # <<>>]
                    /\ widget' =
                        [widget EXCEPT
                            !.feedback_error = caught,
                            !.message = IF rows > 0 THEN "Session Saved" ELSE "Save Error",
                            !.save_enabled = FALSE,
                            !.current_session_id = 0,
                            !.save_outcome = IF caught THEN fault ELSE "completed"]
    /\ UNCHANGED video_thread
    /\ UNCHANGED OutsideSave

SaveClicked ==
    \E fault \in SaveFaults, raising_pose \in 0..MaxRecorded :
        SaveSession(fault, raising_pose)

NextSave ==
    StartSessionRecording \/ RecordSessionFrame \/ StopSessionRecording \/ SaveClicked

SpecSave == Init /\ [][NextSave]_vars

\* The simulation alone: two deviations of the universe, then
\* posture_sim.input['deviation'] = d; posture_sim.compute();
\* posture_sim.output['quality'] for each of them
InitInfer ==
    /\ posture_sim = [input |-> -1, output |-> -1]
    /\ joint_angles = EmptyDict
    /\ outcome = "none"
    /\ analysis = NoAnalysis
    /\ joint_angles_sequence = <<>>
    /\ stability_outcome = "none"
    /\ stability = EmptyStability
    /\ infer_inputs \in Universe \X Universe
    /\ infer_outputs = <<>>
    /\ all_posture_analyses = <<>>
    /\ summary_stability = SummaryInputOfStability(EmptyStability)
    /\ summary_outcome = "none"
    /\ summary = NoSummary
    /\ stored_session = NewSession
    /\ loaded_session = NewSession
    /\ threads = [t \in Threads |-> IdleThread]
    /\ widget = InitialWidget
    /\ video_thread = [recording |-> FALSE, recorded_frames |-> <<>>]
    /\ database = [sessions |-> 0,
                   session_data |-> [id \in 1..MaxSessions |-> 0],
                   summary |-> [id \in 1..MaxSessions |-> FALSE]]
    /\ InitPeripherals

Compute ==
    /\ infer_outputs = <<>>
    /\ infer_outputs' = <<InferTable[infer_inputs[1]], InferTable[infer_inputs[2]]>>
    /\ UNCHANGED infer_inputs
    /\ UNCHANGED OutsideInfer

NextInfer == Compute

SpecInfer == InitInfer /\ [][NextInfer]_vars

(***************************************************************************)
(* Properties.                                                             *)
(***************************************************************************)
\* The score 100.0, in the unit of analysis.score
FullScore == 100 * QScale * WScale

\* The sampled angles give whole deviation percentages, so Deviation is exact
ExactDeviation ==
    \A n \in DOMAIN joint_angles \cap Joints :
        LET lo == angle_ranges[n][1]
            hi == angle_ranges[n][2]
            m == joint_angles[n]
        IN  /\ (m < lo /\ lo # 0) =>
                (200 * (lo - m) >= 100 * lo \/ (200 * (lo - m)) % lo = 0)
            /\ m > hi => (200 * (m - hi) >= 100 * hi \/ (200 * (m - hi)) % hi = 0)

\* The feedback messages of a set of joints
MessagesOf(joints) ==
    {feedback_rules[n].low : n \in joints} \cup {feedback_rules[n].high : n \in joints}

\* The weighted sum of the joint scores a FrameAnalysis holds
RECURSIVE WeightedJointScores(_, _)
WeightedJointScores(a, i) ==
    IF i > Len(JointOrder) THEN 0
    ELSE (IF JointOrder[i] \in DOMAIN a.joint_scores
             THEN a.joint_scores[JointOrder[i]] * joint_weights[JointOrder[i]]
             ELSE 0)
         + WeightedJointScores(a, i + 1)

InSeq(x, seq) == \E k \in 1..Len(seq) : seq[k] = x

\* C1: whenever analyze_posture returns, its score is between 0 and 100.
C1_ScoreBounded ==
    outcome = "returned" => 0 <= analysis.score /\ analysis.score <= FullScore

\* C1 witness: a returned analysis of a sample that holds a negative angle
\* and an angle far above its range, with a positive score
C1_Witness ==
    /\ outcome = "returned"
    /\ analysis.score > 0
    /\ \E n \in DOMAIN joint_angles \cap Joints : joint_angles[n] < 0
    /\ \E n \in DOMAIN analysis.deviations :
        analysis.deviations[n].direction = "high"
            /\ analysis.deviations[n].percentage = 100

\* C2: analyze_stability returns a stability_score between 0 and 100 for
\* every sequence, negative angles included.
C2_StabilityScoreBounded ==
    stability_outcome = "returned" =>
        0 <= stability.stability_score /\ stability.stability_score <= 100 * VScale

\* C3: the deviation computation never raises and yields, for every joint of
\* the tables and every measured angle, a direction and a percentage between
\* 0 and 100.
C3_DeviationNeverFails ==
    /\ outcome # "ZeroDivisionError"
    /\ outcome = "returned" =>
        \A n \in DOMAIN analysis.deviations :
            /\ analysis.deviations[n].direction \in {"low", "high", "none"}
            /\ 0 <= analysis.deviations[n].percentage
            /\ analysis.deviations[n].percentage <= 100

\* C4: analyze_posture on the empty sample returns score 0, the feedback
\* "No pose detected" and empty joint_scores and deviations, whatever the
\* analyzer was called with before.
C4_EmptySample ==
    (outcome # "none" /\ joint_angles = EmptyDict) =>
        outcome = "returned" /\ analysis = NoPoseAnalysis

\* C4 witness: the empty sample analysed after a call that evaluated joints
C4_Witness ==
    /\ outcome = "returned"
    /\ joint_angles = EmptyDict
    /\ posture_sim.input # -1

\* C5: a sample with a name that is not a joint gets the FrameAnalysis of
\* the sample without that name.
C5_UnknownJointIgnored ==
    (outcome = "returned" /\ UnknownJoint \in DOMAIN joint_angles) =>
        analysis =
            analyze_posture(posture_sim, Remove(joint_angles, UnknownJoint), "float64").result

\* C6: the keys of joint_scores and of deviations are the joints of the
\* sample, the score is the weighted sum over those joints alone, and every
\* feedback message is one of a joint of the sample (or the positive or the
\* no-pose message).
C6_AbsentJointSkipped ==
    outcome = "returned" =>
        /\ DOMAIN analysis.joint_scores = DOMAIN joint_angles \cap Joints
        /\ DOMAIN analysis.deviations = DOMAIN joint_angles \cap Joints
        /\ analysis.score = WeightedJointScores(analysis, 1)
        /\ \A k \in 1..Len(analysis.feedback) :
            analysis.feedback[k] \in
                MessagesOf(DOMAIN joint_angles \cap Joints)
                    \cup {PositiveFeedback, NoPoseFeedback}

\* C6 witness: a returned analysis of a sample that lacks some joints and
\* holds others, one of them with a feedback message
C6_Witness ==
    /\ outcome = "returned"
    /\ Joints \ DOMAIN joint_angles # {}
    /\ DOMAIN joint_angles \cap Joints # {}
    /\ analysis.score > 0
    /\ analysis.feedback[1] \in MessagesOf(Joints)

\* C7: in the perfect stance every deviation is 0, every joint score is
\* infer(0), the score is infer(0) and at least 90, and the feedback is the
\* positive message alone.
C7_PerfectStance ==
    (outcome # "none" /\ joint_angles = PerfectStance) =>
        /\ outcome = "returned"
        /\ \A n \in Joints :
            /\ analysis.deviations[n].percentage = 0
            /\ analysis.deviations[n].direction = "none"
            /\ analysis.joint_scores[n] = infer(0)
        /\ analysis.score = infer(0) * WScale
        /\ analysis.score >= 90 * QScale * WScale
        /\ analysis.score <= FullScore
        /\ analysis.feedback = <<PositiveFeedback>>

\* C7 witness: the perfect stance has been analysed
C7_Witness == outcome = "returned" /\ joint_angles = PerfectStance

\* Scenario "single bad joint": the perfect stance with left_shoulder at 90.0
SingleBadJoint == Put(PerfectStance, "left_shoulder", 900)

\* C8: with left_shoulder at 90.0 in the perfect stance the deviation of
\* left_shoulder is above the range ('high') and over 20 percent, the
\* feedback holds its 'high' message and not the positive one, and the score
\* is 0.2 * (infer(0) - infer(percentage)) below that of the perfect stance.
C8_SingleBadJoint ==
    (outcome # "none" /\ joint_angles = SingleBadJoint) =>
        /\ outcome = "returned"
        /\ analysis.deviations["left_shoulder"].direction = "high"
        /\ analysis.deviations["left_shoulder"].percentage > 20
        /\ InSeq(feedback_rules["left_shoulder"].high, analysis.feedback)
        /\ ~InSeq(PositiveFeedback, analysis.feedback)
        /\ analyze_posture(posture_sim, PerfectStance, "float").result.score - analysis.score
             = joint_weights["left_shoulder"]
                 * (infer(0) - infer(analysis.deviations["left_shoulder"].percentage))
        /\ analysis.score < analyze_posture(posture_sim, PerfectStance, "float").result.score

\* C8 witness: the single-bad-joint sample has been analysed
C8_Witness == outcome = "returned" /\ joint_angles = SingleBadJoint

\* C9: the quality of deviation 0 is at least 90 and that of deviation 100
\* at most 20.
C9_InferBoundaries ==
    outcome = "returned" =>
        \A n \in DOMAIN analysis.deviations :
            /\ analysis.deviations[n].percentage = 0 =>
                analysis.joint_scores[n] >= 90 * QScale
            /\ analysis.deviations[n].percentage = 100 =>
                analysis.joint_scores[n] <= 20 * QScale

\* C9 witness: an analysis that inferred the quality of deviation 0 and of
\* deviation 100
C9_Witness ==
    /\ outcome = "returned"
    /\ \E n \in DOMAIN analysis.deviations : analysis.deviations[n].percentage = 0
    /\ \E n \in DOMAIN analysis.deviations : analysis.deviations[n].percentage = 100

\* C10: for the 10-frame sequence with knees constant at 172.5 and hips
\* alternating 170 / 190, knees has variation 0 and is stable, hips has a
\* variation over 5 percent and is unstable, and stability_score is below 100.
C10_StabilityScenario ==
    (stability_outcome = "returned" /\ joint_angles_sequence = StabilityScenario) =>
        /\ stability.variations["knees"].variation_pct = 0
        /\ InSeq("knees", stability.stable_joints)
        /\ ~InSeq("knees", stability.unstable_joints)
        /\ stability.variations["hips"].variation_pct > 5 * VScale
        /\ InSeq("hips", stability.unstable_joints)
        /\ ~InSeq("hips", stability.stable_joints)
        /\ stability.stability_score < 100 * VScale

\* C10 witness: the scenario's sequence has been analysed
C10_Witness ==
    stability_outcome = "returned" /\ joint_angles_sequence = StabilityScenario

\* C15: the inferred quality never rises with the deviation: for integer
\* deviations d1 < d2 of 0..100, infer(d1) >= infer(d2).
C15_InferMonotone ==
    (infer_outputs # <<>> /\ infer_inputs[1] < infer_inputs[2]) =>
        infer_outputs[1] >= infer_outputs[2]

\* C15 witness: two deviations of neighbouring bands, the larger one with a
\* strictly lower quality
C15_Witness ==
    /\ infer_outputs # <<>>
    /\ infer_inputs = <<30, 45>>
    /\ infer_outputs[1] > infer_outputs[2]

\* clamp(100 * excess / (bound * 0.5), 0, 100); the quotient by a bound of 0
\* is unbounded and clamps to 100
ClampedPercentage(excess, bound) ==
    IF bound = 0 THEN 100
    ELSE Max(0, Min(100, (200 * excess) \div bound))

\* C16: every call on a sample returns, and for every joint of the tables in
\* it with an angle that is a number: below the minimum the direction is 'low' and the percentage
\* clamp(100 * (min - measured) / (min * 0.5), 0, 100); above the maximum the
\* direction is 'high' and the percentage
\* clamp(100 * (measured - max) / (max * 0.5), 0, 100); otherwise, the two
\* ends of the range included, there is no direction and the percentage is 0.
C16_DeviationFormula ==
    outcome # "none" =>
        /\ outcome = "returned"
        /\ \A n \in (DOMAIN joint_angles \cap Joints) \ NaNJoints(joint_angles) :
            LET measured == joint_angles[n]
                min_angle == angle_ranges[n][1]
                max_angle == angle_ranges[n][2]
                d == analysis.deviations[n]
            IN  /\ measured < min_angle =>
                    /\ d.direction = "low"
                    /\ d.percentage = ClampedPercentage(min_angle - measured, min_angle)
                /\ measured > max_angle =>
                    /\ d.direction = "high"
                    /\ d.percentage = ClampedPercentage(measured - max_angle, max_angle)
                /\ (min_angle <= measured /\ measured <= max_angle) =>
                    /\ d.direction = "none"
                    /\ d.percentage = 0

\* The joints of an analysis whose deviation is over 20 percent, in the
\* order of the tables
SignificantJoints(a) ==
    LET Significant(n) == n \in DOMAIN a.deviations /\ a.deviations[n].percentage > 20
    IN  SelectSeq(JointOrder, Significant)

\* C17: for a sample that is not empty the feedback is the message, for its
\* direction, of each joint whose deviation is strictly over 20 percent, in
\* the order of the tables; it is the positive message alone exactly when
\* there is no such joint; it is never empty.
C17_FeedbackList ==
    (outcome = "returned" /\ joint_angles # EmptyDict) =>
        LET joints == SignificantJoints(analysis)
            messages ==
                [k \in 1..Len(joints) |->
                    feedback_rules[joints[k]][analysis.deviations[joints[k]].direction]]
        IN  /\ Len(analysis.feedback) >= 1
            /\ joints # <<>> => analysis.feedback = messages
            /\ joints = <<>> <=> analysis.feedback = <<PositiveFeedback>>

\* C17 witness: an analysis with one joint at exactly 20 percent and a later
\* joint over 20 percent, whose message is the whole feedback
C17_Witness ==
    /\ outcome = "returned"
    /\ Len(analysis.feedback) = 1
    /\ analysis.feedback[1] # PositiveFeedback
    /\ \E n \in DOMAIN analysis.deviations : analysis.deviations[n].percentage = 20
    /\ \E n \in DOMAIN analysis.deviations : analysis.deviations[n].percentage > 20

\* The total weight of a set of joints, in 1/WScale
RECURSIVE WeightOf(_)
WeightOf(joints) ==
    IF joints = {} THEN 0
    ELSE LET n == CHOOSE m \in joints : TRUE
         IN  joint_weights[n] + WeightOf(joints \ {n})

\* C18: the eight weights sum to 1.0; the score is the sum of joint score
\* times weight over the analysed joints, not divided by their total weight:
\* with all eight joints it is the weighted average of the joint scores, with
\* fewer it is at most 100 times the total weight of the joints present.
C18_DirectWeightedSum ==
    /\ WeightOf(Joints) = WScale
    /\ outcome = "returned" =>
        LET present == DOMAIN analysis.joint_scores
        IN  /\ analysis.score = WeightedJointScores(analysis, 1)
            /\ present = Joints =>
                analysis.score * WeightOf(present)
                    = WeightedJointScores(analysis, 1) * WScale
            /\ analysis.score <= 100 * QScale * WeightOf(present)

\* C18 witness: an analysis of some but not all joints whose score is above
\* zero and below what the weighted average of its joint scores would be
C18_Witness ==
    /\ outcome = "returned"
    /\ DOMAIN analysis.joint_scores # {}
    /\ DOMAIN analysis.joint_scores # Joints
    /\ analysis.score > 0
    /\ analysis.score * WeightOf(DOMAIN analysis.joint_scores)
         < WeightedJointScores(analysis, 1) * WScale

\* A recorded sequence with the name that is no joint taken out of every frame
WithoutUnknown(seq) ==
    [k \in 1..Len(seq) |-> Remove(seq[k], UnknownJoint)]

\* C19: a name that is no joint of the tables never changes stability_score,
\* which is 0 when no joint of the tables occurs in any frame; yet every name
\* with a value is a key of variations and is in exactly one of stable_joints
\* and unstable_joints.
C19_UnknownJointInStability ==
    stability_outcome = "returned" =>
        LET names == {n \in SequenceJointNames(joint_angles_sequence) :
                         ValueSums(n, joint_angles_sequence, 1)[1] > 0}
            visited == stability.stable_joints \o stability.unstable_joints
            IsJoint(n) == n \in Joints
        IN  /\ stability.stability_score
                 = analyze_stability(WithoutUnknown(joint_angles_sequence),
                                     SelectSeq(visited, IsJoint)).stability_score
            /\ names \cap Joints = {} => stability.stability_score = 0
            /\ DOMAIN stability.variations = names
            /\ Len(visited) = Cardinality(names)
            /\ \A n \in names :
                InSeq(n, stability.stable_joints) # InSeq(n, stability.unstable_joints)

\* C19 witness: a sequence where the name that is no joint varies by more
\* than 5 percent beside a constant joint: the name is unstable and the
\* score is 100
C19_Witness ==
    /\ stability_outcome = "returned"
    /\ InSeq(UnknownJoint, stability.unstable_joints)
    /\ InSeq("hips", stability.stable_joints)
    /\ stability.stability_score = 100 * VScale

\* C11: for a list of analyses that is not empty, overall_score is
\* 0.7 * mean(score) + 0.3 * stability_score (to the resolution of
\* overall_score); 5 analyses of score 80 with stability_score 60 give
\* overall_score 74.0, posture_quality "Good" and stability "Moderately Stable".
C11_OverallScoreBlend ==
    (summary_outcome = "returned" /\ all_posture_analyses # <<>>) =>
        LET n == Len(all_posture_analyses)
            blend == 7 * SumScores(all_posture_analyses, 1)
                        + 3 * summary_stability.stability_score * ((QScale * WScale) \div VScale) * n
        IN  /\ summary.overall_score * n <= blend
            /\ blend < (summary.overall_score + 1) * n
            /\ (all_posture_analyses = SummaryScenario
                    /\ summary_stability.stability_score = 60 * VScale) =>
                /\ summary.overall_score = 74 * SummaryScale
                /\ summary.posture_quality = "Good"
                /\ summary.stability = "Moderately Stable"

\* C11 witness: the summary of the scenario's 5 analyses with stability_score 60
C11_Witness ==
    /\ summary_outcome = "returned"
    /\ all_posture_analyses = SummaryScenario
    /\ summary_stability.stability_score = 60 * VScale

\* C20: posture_quality follows overall_score and stability follows
\* stability_score by the same breakpoints, each breakpoint included:
\* >= 85 Excellent / Very Stable, >= 70 Good / Stable, >= 50 Fair /
\* Moderately Stable, below 50 Needs Improvement / Unstable; for a list that
\* is not empty neither label is "N/A".
C20_CategoryBreakpoints ==
    (summary_outcome = "returned" /\ all_posture_analyses # <<>>) =>
        LET o == summary.overall_score
            t == summary_stability.stability_score
        IN  /\ o >= 85 * SummaryScale <=> summary.posture_quality = "Excellent"
            /\ (70 * SummaryScale <= o /\ o < 85 * SummaryScale)
                    <=> summary.posture_quality = "Good"
            /\ (50 * SummaryScale <= o /\ o < 70 * SummaryScale)
                    <=> summary.posture_quality = "Fair"
            /\ o < 50 * SummaryScale <=> summary.posture_quality = "Needs Improvement"
            /\ t >= 85 * VScale <=> summary.stability = "Very Stable"
            /\ (70 * VScale <= t /\ t < 85 * VScale) <=> summary.stability = "Stable"
            /\ (50 * VScale <= t /\ t < 70 * VScale)
                    <=> summary.stability = "Moderately Stable"
            /\ t < 50 * VScale <=> summary.stability = "Unstable"
            /\ summary.posture_quality # "N/A"
            /\ summary.stability # "N/A"

\* C20 witness: a summary whose overall_score and stability_score are both
\* exactly 85
C20_Witness ==
    /\ summary_outcome = "returned"
    /\ all_posture_analyses # <<>>
    /\ summary.overall_score = 85 * SummaryScale
    /\ summary_stability.stability_score = 85 * VScale

\* C12: whatever the other thread does meanwhile, a call of analyze_posture
\* returns the FrameAnalysis that the same call returns when it runs alone.
C12_ConcurrentCallsIndependent ==
    \A t \in Threads :
        threads[t].pc = "done" =>
            threads[t].result
                = analyze_posture(posture_sim, threads[t].sample, "float64").result

\* C13: when stability analysis, summary generation or persistence raises
\* while a session is saved, the error is surfaced and the session stays
\* unsaved: no success message, the session id and the save button as they
\* were.
C13_FailedSaveIsUnsaved ==
    widget.save_outcome \in SaveFaults \ {"none"} =>
        /\ widget.message = "Save Error"
        /\ widget.current_session_id # 0
        /\ widget.save_enabled

\* C14: a summary stored with update_session and read back with get_session
\* has the overall_score, posture_quality, stability, key_strengths,
\* areas_to_improve and recommendations it was stored with.
C14_SummaryRoundTrip ==
    (loaded_session # NewSession /\ stored_session = update_session(NewSession, summary)) =>
        /\ DOMAIN loaded_session.summary = DOMAIN summary
        /\ loaded_session.summary.overall_score = summary.overall_score
        /\ loaded_session.summary.posture_quality = summary.posture_quality
        /\ loaded_session.summary.stability = summary.stability
        /\ loaded_session.summary.key_strengths = summary.key_strengths
        /\ loaded_session.summary.areas_to_improve = summary.areas_to_improve
        /\ loaded_session.summary.recommendations = summary.recommendations

\* C14 witness: a summary read back whose overall_score has digits after the
\* point and whose three lists are not empty
C14_Witness ==
    /\ loaded_session # NewSession
    /\ summary_outcome = "returned"
    /\ summary.overall_score % SummaryScale # 0
    /\ (summary.overall_score * 10) % SummaryScale # 0
    /\ Len(summary.key_strengths) = 3
    /\ Len(summary.areas_to_improve) = 3
    /\ Len(summary.recommendations) >= 2

\* The summary generate_session_summary returned for a list that is not empty
SummaryReturned == summary_outcome = "returned" /\ all_posture_analyses # <<>>

IsStrongText(text) ==
    \E n \in DOMAIN TitleName : text = "Strong " \o TitleName[n] \o " Position"

IsStableText(text) == \E n \in DOMAIN TitleName : text = "Stable " \o TitleName[n]

\* C21: key_strengths never lists a joint both as "Strong ... Position" and
\* as "Stable ..."; it has at most 3 entries, the strong joints before the
\* stable ones.
C21_StrengthsWithoutRepeats ==
    SummaryReturned =>
        LET strengths == summary.key_strengths
        IN  /\ Len(strengths) <= 3
            /\ \A n \in DOMAIN TitleName :
                ~(/\ InSeq("Strong " \o TitleName[n] \o " Position", strengths)
                  /\ InSeq("Stable " \o TitleName[n], strengths))
            /\ \A i, j \in 1..Len(strengths) :
                (IsStableText(strengths[i]) /\ IsStrongText(strengths[j])) => j < i

\* C22: areas_to_improve is the first three of: the three most frequent
\* feedback texts other than the positive message, most frequent first, then
\* "Improve ... Stability" for the unstable joints.
C22_PositiveExcludedBeforeRanking ==
    SummaryReturned =>
        LET all == AllFeedback(all_posture_analyses, 1)
            NotPositive(text) == text # PositiveFeedback
            ranked == SortedFeedback(<<>>, SelectSeq(Distinct(all, 1), NotPositive), all, 1)
        IN  summary.areas_to_improve
                = Take(Take(ranked, 3)
                          \o UnstableImprovements(summary_stability.unstable_joints), 3)

\* The message of a summary for which no rule produced a recommendation
MaintenanceMessage == "Continue practicing to maintain your excellent form."

\* C23: recommendations never holds a message twice, is never empty for a
\* list that is not empty, and holds the maintenance message exactly when it
\* holds nothing else.
C23_RecommendationsDistinct ==
    SummaryReturned =>
        LET r == summary.recommendations
        IN  /\ \A i, j \in 1..Len(r) : i # j => r[i] # r[j]
            /\ Len(r) >= 1
            /\ InSeq(MaintenanceMessage, r) <=> r = <<MaintenanceMessage>>

(***************************************************************************)
(* VideoPlayer: playback of a loaded session.                              *)
(***************************************************************************)
MaxPlayerFrames == 3

\* Positions given to seek, in hundredths; the code takes any float
SeekPositions == {-50, 0, 25, 50, 75, 100, 150}

\* The frames of a session read back for playback
SessionFrames(kinds) == [i \in 1..Len(kinds) |-> [number |-> i - 1, kind |-> kinds[i]]]

PlayerSessions ==
    {SessionFrames(kinds) :
        kinds \in UNION {[1..n -> FrameKinds] : n \in 0..MaxPlayerFrames}}

\* Python's %: the result has the sign of the divisor
PyMod(a, b) == a % b

\* Lines 460-470: get_current_frame
get_current_frame(p) ==
    IF p.current_session = <<>> \/ p.current_frame_index >= Len(p.current_session)
        THEN NoFrame
        ELSE p.current_session[p.current_frame_index + 1]

\* Lines 449-458: load_session
load_session(p, session_data) ==
    [p EXCEPT !.current_session = session_data,
              !.current_frame_index = 0,
              !.playing = FALSE]

\* Lines 472-483: next_frame; the index after the call (line 482)
next_frame_index(p) ==
    PyMod(p.current_frame_index + 1, Len(p.current_session))

\* Lines 485-496: previous_frame; the index after the call (line 495)
previous_frame_index(p) ==
    PyMod(p.current_frame_index - 1, Len(p.current_session))

\* ClampPosition without the upper limit
ClampPositionBelowOnly(position) == Max(0, position)

\* Line 511: position = max(0.0, min(1.0, position)), in hundredths
ClampPosition(position) == Max(0, Min(100, position))

\* Lines 511-512: seek; int() truncates, and the product is not negative
seek_index(p, position) ==
    (ClampPosition(position) * (Len(p.current_session) - 1)) \div 100

\* The variables of the analyzer and of the save of a session
AnalyzerVars ==
    <<PostureVars, StabilityVars, InferVars, SummaryVars, threads, SaveVars>>

OutsidePlayer == <<AnalyzerVars, live, store, detector>>

\* player.load_session(session_data)
LoadSession ==
    /\ \E session_data \in PlayerSessions :
           player' = [load_session(player, session_data) EXCEPT
                          !.call = "load_session", !.position = 0,
                          !.returned = NoFrame]
    /\ UNCHANGED OutsidePlayer

\* player.get_current_frame()
GetCurrentFrame ==
    /\ player' = [player EXCEPT !.call = "get_current_frame", !.position = 0,
                                !.returned = get_current_frame(player)]
    /\ UNCHANGED OutsidePlayer

\* A method of the player that moves to index and returns the frame there,
\* or returns None at once when no session is loaded (lines 479-480,
\* 492-493, 508-509)
Moved(p, name, position, index) ==
    IF p.current_session = <<>>
        THEN [p EXCEPT !.call = name, !.position = position, !.returned = NoFrame]
        ELSE LET q == [p EXCEPT !.current_frame_index = index]
             IN  [q EXCEPT !.call = name, !.position = position,
                           !.returned = get_current_frame(q)]

\* player.next_frame()
NextFrame ==
    /\ player' = Moved(player, "next_frame", 0,
                       IF player.current_session = <<>> THEN 0
                       ELSE next_frame_index(player))
    /\ UNCHANGED OutsidePlayer

\* player.previous_frame()
PreviousFrame ==
    /\ player' = Moved(player, "previous_frame", 0,
                       IF player.current_session = <<>> THEN 0
                       ELSE previous_frame_index(player))
    /\ UNCHANGED OutsidePlayer

\* player.seek(position)
Seek ==
    /\ \E position \in SeekPositions :
           player' = Moved(player, "seek", position,
                           IF player.current_session = <<>> THEN 0
                           ELSE seek_index(player, position))
    /\ UNCHANGED OutsidePlayer

NextPlayer ==
    \/ LoadSession
    \/ GetCurrentFrame
    \/ NextFrame
    \/ PreviousFrame
    \/ Seek

SpecPlayer == Init /\ [][NextPlayer]_vars

\* The player holds a session with at least one frame
HoldsSession == player.current_session # <<>>

LastIndex == Len(player.current_session) - 1

\* C26: next_frame at the last frame returns None and leaves the index where
\* it is, and previous_frame at the first frame does the same.
C26_NoneAtTheEnds ==
    [][/\ (HoldsSession /\ player'.call = "next_frame"
              /\ player.current_frame_index = LastIndex)
          => (player'.returned = NoFrame
                 /\ player'.current_frame_index = player.current_frame_index)
       /\ (HoldsSession /\ player'.call = "previous_frame"
              /\ player.current_frame_index = 0)
          => (player'.returned = NoFrame
                 /\ player'.current_frame_index = player.current_frame_index)]_vars

\* C28: while the player holds a session with at least one frame, the index
\* is within the session, get_current_frame returns the frame at the index,
\* every method that returns a frame returned one, and seek left the index
\* at the clamped position's share of the last index.
C28_IndexInRange ==
    HoldsSession =>
        /\ player.current_frame_index \in 0..LastIndex
        /\ get_current_frame(player) # NoFrame
        /\ get_current_frame(player).number = player.current_frame_index
        /\ player.call \in {"get_current_frame", "next_frame", "previous_frame", "seek"}
               => player.returned = get_current_frame(player)
        /\ player.call = "seek" =>
               /\ (player.position <= 0 => player.current_frame_index = 0)
               /\ (player.position >= 100 => player.current_frame_index = LastIndex)
               /\ (player.position \in 0..100 =>
                       player.current_frame_index
                           = (player.position * LastIndex) \div 100)

\* seek far past the end of a session of three frames
C28_Witness ==
    /\ Len(player.current_session) = MaxPlayerFrames
    /\ player.call = "seek"
    /\ player.position > 100
    /\ player.current_frame_index = LastIndex
    /\ player.returned = player.current_session[MaxPlayerFrames]

\* A sample or a recorded sequence without the angles that are NaN
WithoutNaN(sample) == [n \in DOMAIN sample \ NaNJoints(sample) |-> sample[n]]

WithoutNaNFrames(seq) == [k \in 1..Len(seq) |-> WithoutNaN(seq[k])]

\* C24: a joint whose angle is NaN is treated by analyze_posture as a joint
\* that is missing: it has no joint score and no deviation entry, and the
\* score is that of the sample without it.
C24_NaNIsMissing ==
    (outcome = "returned" /\ NaNJoints(joint_angles) # {}) =>
        /\ \A n \in NaNJoints(joint_angles) :
               /\ n \notin DOMAIN analysis.joint_scores
               /\ n \notin DOMAIN analysis.deviations
        /\ analysis.score
               = analyze_posture(posture_sim, WithoutNaN(joint_angles), "float64").result.score

\* analyze_stability of a sequence with NaN angles returns what it returns
\* for the sequence without them, for the joints that keep a value
StabilityIgnoresNaN ==
    stability_outcome = "returned" =>
        LET clean == WithoutNaNFrames(joint_angles_sequence)
        IN  /\ stability.variations = Variations(clean)
            /\ \E order \in Orders(SequenceJointNames(clean)) :
                   stability.stability_score
                       = analyze_stability(clean, order).stability_score

\* A recorded sequence with a NaN angle was analysed
StabilityIgnoresNaNCase ==
    /\ stability_outcome = "returned"
    /\ \E k \in 1..Len(joint_angles_sequence) : NaNJoints(joint_angles_sequence[k]) # {}
    /\ DOMAIN stability.variations # {}

(***************************************************************************)
(* Recording a session and writing its frames: LiveAnalysisWidget          *)
(* _process_pose_data, _start_recording, _stop_recording and               *)
(* _process_recorded_session, VideoThread.run.                             *)
(***************************************************************************)
MaxLiveFrames == 3

\* What the pose detector hands over for a frame: no pose, the perfect
\* stance, the stance with one bad joint (video_processor.py lines 94-120)
LivePoses == {EmptyDict, PerfectStance, SingleBadJoint}

\* posture_analyzer.analyze_posture(joint_angles), on numpy floats
AnalysisOf(sample) ==
    analyze_posture([input |-> -1, output |-> -1], sample, "float64").result

\* live_analysis.py lines 504-528 and video_processor.py lines 413-419
start_recording(w) ==
    [w EXCEPT !.is_recording = TRUE, !.analysis_results = <<>>,
              !.thread_frames = <<>>, !.session_data = <<>>]

\* video_processor.py lines 380-389: every frame is recorded while
\* recording; live_analysis.py lines 379-402: a frame with a pose is analysed
\* when the analysis interval has passed (due) and the analysis is kept
\* while recording
capture_frame(w, sample, due) ==
    LET recorded == [w EXCEPT !.thread_frames = Append(@, sample)]
    IN  IF sample # EmptyDict /\ due
            THEN [recorded EXCEPT !.analysis_results = Append(@, AnalysisOf(sample))]
            ELSE recorded

\* live_analysis.py lines 530-556 and video_processor.py lines 421-434
stop_recording(w) ==
    [w EXCEPT !.is_recording = FALSE, !.recorded_frames = w.thread_frames]

\* live_analysis.py lines 620-624: the analysis of frame i (counted from 0)
FrameAnalysisOf(w, i) ==
    IF i < Len(w.analysis_results)
        THEN w.analysis_results[i + 1]
        ELSE AnalysisOf(w.recorded_frames[i + 1])

\* live_analysis.py lines 600-636: the rows add_session_data writes, from
\* frame i on
RECURSIVE SessionRows(_, _)
SessionRows(w, i) ==
    IF i >= Len(w.recorded_frames) THEN <<>>
    ELSE (IF w.recorded_frames[i + 1] # EmptyDict
             THEN <<[frame_number |-> i,
                     joint_angles |-> w.recorded_frames[i + 1],
                     posture_score |-> FrameAnalysisOf(w, i).score,
                     feedback |-> FrameAnalysisOf(w, i).feedback]>>
             ELSE <<>>)
         \o SessionRows(w, i + 1)

\* live_analysis.py lines 584-636
process_recorded_session(w) ==
    IF w.recorded_frames = <<>> THEN w
    ELSE [w EXCEPT !.session_data = SessionRows(w, 0)]

OutsideLive == <<AnalyzerVars, player, store, detector>>

\* The record button starts a recording
StartLiveRecording ==
    /\ ~live.is_recording
    /\ live' = start_recording(live)
    /\ UNCHANGED OutsideLive

\* The video thread delivers a frame while recording
CaptureFrame ==
    /\ live.is_recording
    /\ Len(live.thread_frames) < MaxLiveFrames
    /\ \E sample \in LivePoses, due \in BOOLEAN :
           live' = capture_frame(live, sample, due)
    /\ UNCHANGED OutsideLive

\* The record button stops the recording
StopLiveRecording ==
    /\ live.is_recording
    /\ live' = stop_recording(live)
    /\ UNCHANGED OutsideLive

\* The save button: _process_recorded_session
ProcessRecordedSession ==
    /\ ~live.is_recording
    /\ live.session_data = <<>>
    /\ live.recorded_frames # <<>>
    /\ live' = process_recorded_session(live)
    /\ UNCHANGED OutsideLive

NextLive ==
    \/ StartLiveRecording
    \/ CaptureFrame
    \/ StopLiveRecording
    \/ ProcessRecordedSession

SpecLive == Init /\ [][NextLive]_vars

\* C30: every row written for a recorded session holds the score and the
\* feedback of the analysis of the joint angles of its own frame.
C30_RowsOfOwnFrame ==
    \A k \in 1..Len(live.session_data) :
        LET row == live.session_data[k]
        IN  /\ row.joint_angles = live.recorded_frames[row.frame_number + 1]
            /\ row.posture_score = AnalysisOf(row.joint_angles).score
            /\ row.feedback = AnalysisOf(row.joint_angles).feedback

(***************************************************************************)
(* DataManager: users and what belongs to them.  A row is a record of its  *)
(* key columns; no foreign key is enforced (_get_connection, lines 31-40,  *)
(* sets no PRAGMA), so a session may name a user that does not exist.      *)
(***************************************************************************)
MaxUsers == 2
MaxStoreSessions == 2
MaxStoreData == 1

UserIds == 1..MaxUsers

StoreSessionIds == 1..MaxStoreSessions

SettingKeys == {"camera_id"}

SettingValues == {"0"}

\* A call that has returned, with the value it returned
Returned(db, name, id, value) ==
    [db EXCEPT !.call = [name |-> name, id |-> id], !.returned = value]

\* Lines 157-187: create_user
create_user(db) ==
    Returned([db EXCEPT !.users = @ \cup {db.last_user_id + 1},
                        !.last_user_id = @ + 1],
             "create_user", db.last_user_id + 1, "lastrowid")

\* Lines 380-419: create_session
create_session(db, user_id) ==
    Returned([db EXCEPT !.sessions =
                            @ \cup {[session_id |-> db.last_session_id + 1,
                                     user_id |-> user_id]},
                        !.last_session_id = @ + 1],
             "create_session", db.last_session_id + 1, "lastrowid")

\* Lines 693-753: add_session_data
add_session_data(db, session_id) ==
    Returned([db EXCEPT !.session_data =
                            @ \cup {[data_id |-> db.last_data_id + 1,
                                     session_id |-> session_id]},
                        !.last_data_id = @ + 1],
             "add_session_data", db.last_data_id + 1, "lastrowid")

\* Lines 910-951: set_user_setting
set_user_setting(db, user_id, key, value) ==
    Returned([db EXCEPT !.settings =
                            {r \in @ : ~(r.user_id = user_id /\ r.setting_key = key)}
                            \cup {[user_id |-> user_id, setting_key |-> key,
                                   setting_value |-> value]}],
             "set_user_setting", user_id, "True")

\* Lines 576-649: delete_session
delete_session(db, session_id) ==
    IF \A r \in db.sessions : r.session_id # session_id
        THEN Returned(db, "delete_session", session_id, "False")
        ELSE Returned([db EXCEPT !.session_data = {d \in @ : d.session_id # session_id},
                                 !.sessions = {r \in @ : r.session_id # session_id}],
                      "delete_session", session_id, "True")

\* Line 315: SELECT session_id FROM sessions WHERE user_id = ?
SessionsOfUser(db, user_id) ==
    {r.session_id : r \in {q \in db.sessions : q.user_id = user_id}}

\* delete_user without the DELETE FROM session_data of line 353
delete_user_keeping_data(db, user_id) ==
    IF user_id \notin db.users
        THEN Returned(db, "delete_user", user_id, "False")
        ELSE Returned([db EXCEPT !.settings = {r \in @ : r.user_id # user_id},
                                 !.sessions = {r \in @ : r.user_id # user_id},
                                 !.users = @ \ {user_id}],
                      "delete_user", user_id, "True")

\* Lines 287-378: delete_user
delete_user(db, user_id) ==
    IF user_id \notin db.users
        THEN Returned(db, "delete_user", user_id, "False")
        ELSE Returned([db EXCEPT !.settings = {r \in @ : r.user_id # user_id},
                                 !.session_data =
                                     {d \in @ : d.session_id \notin SessionsOfUser(db, user_id)},
                                 !.sessions = {r \in @ : r.user_id # user_id},
                                 !.users = @ \ {user_id}],
                      "delete_user", user_id, "True")

OutsideStore == <<AnalyzerVars, player, live, detector>>

CreateUser ==
    /\ store.last_user_id < MaxUsers
    /\ store' = create_user(store)
    /\ UNCHANGED OutsideStore

CreateSession ==
    /\ store.last_session_id < MaxStoreSessions
    /\ \E user_id \in UserIds : store' = create_session(store, user_id)
    /\ UNCHANGED OutsideStore

AddSessionData ==
    /\ store.last_data_id < MaxStoreData
    /\ \E session_id \in StoreSessionIds : store' = add_session_data(store, session_id)
    /\ UNCHANGED OutsideStore

SetUserSetting ==
    /\ \E user_id \in UserIds, key \in SettingKeys, value \in SettingValues :
           store' = set_user_setting(store, user_id, key, value)
    /\ UNCHANGED OutsideStore

DeleteSession ==
    /\ \E session_id \in StoreSessionIds : store' = delete_session(store, session_id)
    /\ UNCHANGED OutsideStore

DeleteUser ==
    /\ \E user_id \in UserIds : store' = delete_user(store, user_id)
    /\ UNCHANGED OutsideStore

NextStore ==
    \/ CreateUser
    \/ CreateSession
    \/ AddSessionData
    \/ SetUserSetting
    \/ DeleteSession
    \/ DeleteUser

SpecStore == Init /\ [][NextStore]_vars

\* The tables of the store
Tables(db) == <<db.users, db.sessions, db.session_data, db.settings>>

\* C25: delete_user of a user that exists returns True and leaves no users
\* row, no sessions row, no session_data row of one of the user's sessions
\* and no settings row of the user, and every other row as it was;
\* delete_user of an id that is no user returns False and leaves every table
\* as it was.
C25_DeleteUserCascades ==
    [][\A u \in UserIds :
          store'.call = [name |-> "delete_user", id |-> u] =>
              IF u \in store.users
                  THEN /\ store'.returned = "True"
                       /\ store'.users = store.users \ {u}
                       /\ store'.sessions = {r \in store.sessions : r.user_id # u}
                       /\ store'.session_data
                              = {d \in store.session_data :
                                    \A r \in store.sessions :
                                        r.session_id = d.session_id => r.user_id # u}
                       /\ store'.settings = {r \in store.settings : r.user_id # u}
                  ELSE /\ store'.returned = "False"
                       /\ Tables(store') = Tables(store)]_vars

\* delete_user(1) has returned True where both users had a session and a
\* setting and a row of data had been written: the session and the setting
\* of user 2 remain, and nothing else
C25_Witness ==
    /\ store.call = [name |-> "delete_user", id |-> 1]
    /\ store.returned = "True"
    /\ store.users = {2}
    /\ store.last_session_id = MaxStoreSessions
    /\ store.last_data_id = MaxStoreData
    /\ store.sessions = {[session_id |-> 2, user_id |-> 2]}
    /\ store.session_data = {}
    /\ store.settings = {[user_id |-> 2, setting_key |-> "camera_id", setting_value |-> "0"]}

(***************************************************************************)
(* AudioDetector: the owner's calls, the stream's callback and the         *)
(* processor threads.                                                      *)
(***************************************************************************)
\* Line 101: join(timeout=1.0), in ticks
JoinTimeoutTicks == 2

MaxTicks == 6
MaxQueue == 2
MaxCallbacks == 3

\* A chunk is loud when its amplitude exceeds the threshold (line 205)
Chunks == {"loud", "quiet"}

\* processor_thread.is_alive()
IsAlive(d, t) == t # 0 /\ d.processors[t].pc # "none"

\* Lines 65-87: start, with t the thread it creates
start(d, t) ==
    IF d.is_running THEN [d EXCEPT !.caller = "start"]
    ELSE [d EXCEPT !.stream = TRUE, !.is_running = TRUE, !.processor_thread = t,
                   !.processors[t] = [NoProcessor EXCEPT !.pc = "loop"],
                   !.caller = "start"]

\* Lines 96-101: stop, up to the join of the processor thread
stop_begin(d) ==
    [d EXCEPT !.is_running = FALSE, !.is_listening = FALSE,
              !.main = "join", !.join_start = d.now]

\* Lines 103-120: stop, from the end of the join on
stop_end(d) ==
    [d EXCEPT !.stream = FALSE, !.audio_queue = <<>>,
              !.main = "idle", !.caller = "stop"]

\* Lines 122-125: start_listening
start_listening(d) == [d EXCEPT !.is_listening = TRUE, !.caller = "start_listening"]

\* Lines 127-130: stop_listening
stop_listening(d) == [d EXCEPT !.is_listening = FALSE, !.caller = "stop_listening"]

\* Lines 151-168: _audio_callback
audio_callback(d, in_data) ==
    IF d.is_running /\ d.is_listening
        THEN [d EXCEPT !.audio_queue = Append(@, in_data)]
        ELSE d

\* Lines 205-209: _process_audio up to the invocation of the callback at
\* line 224
process_audio(d, t) ==
    IF d.processors[t].audio_data = "loud"
       /\ d.now - d.last_detection_time >= CooldownTicks
        THEN [d EXCEPT !.callbacks = Append(@, d.now),
                       !.processors[t].current_time = d.now,
                       !.processors[t].pc = "callback"]
        ELSE [d EXCEPT !.processors[t].pc = "loop",
                       !.processors[t].audio_data = "none"]

\* Line 210: the callback has returned
record_detection(d, t) ==
    [d EXCEPT !.last_detection_time = d.processors[t].current_time,
              !.processors[t] = [NoProcessor EXCEPT !.pc = "loop"]]

OutsideDetector == <<AnalyzerVars, player, live, store>>

\* detector.start()
Start ==
    /\ detector.main = "idle"
    /\ \E t \in Processors :
        /\ ~IsAlive(detector, t)
        /\ \A u \in Processors : ~IsAlive(detector, u) => t <= u
        /\ detector' = start(detector, t)
    /\ UNCHANGED OutsideDetector

\* detector.stop() is called
StopBegin ==
    /\ detector.main = "idle"
    /\ detector' = stop_begin(detector)
    /\ UNCHANGED OutsideDetector

\* The join of line 101 ends: there is no thread, the thread has exited, or
\* the timeout has passed while the thread is inside the callback
StopEnd ==
    /\ detector.main = "join"
    /\ \/ ~IsAlive(detector, detector.processor_thread)
       \/ /\ IsAlive(detector, detector.processor_thread)
          /\ detector.processors[detector.processor_thread].pc = "callback"
          /\ detector.now - detector.join_start >= JoinTimeoutTicks
    /\ detector' = stop_end(detector)
    /\ UNCHANGED OutsideDetector

\* detector.start_listening()
StartListening ==
    /\ detector.main = "idle"
    /\ detector' = start_listening(detector)
    /\ UNCHANGED OutsideDetector

\* detector.stop_listening()
StopListening ==
    /\ detector.main = "idle"
    /\ detector' = stop_listening(detector)
    /\ UNCHANGED OutsideDetector

\* The open stream delivers a chunk
AudioCallback ==
    /\ detector.stream
    /\ Len(detector.audio_queue) < MaxQueue
    /\ \E in_data \in Chunks : detector' = audio_callback(detector, in_data)
    /\ UNCHANGED OutsideDetector

\* Lines 172-178: a processor thread takes a chunk from the queue
ProcessorGet(t) ==
    /\ detector.processors[t].pc = "loop"
    /\ detector.is_running
    /\ detector.audio_queue # <<>>
    /\ detector' = [detector EXCEPT !.audio_queue = Tail(@),
                                    !.processors[t].audio_data = Head(detector.audio_queue),
                                    !.processors[t].pc = "process"]
    /\ UNCHANGED OutsideDetector

\* Line 172: a processor thread finds is_running False and ends
ProcessorExit(t) ==
    /\ detector.processors[t].pc = "loop"
    /\ ~detector.is_running
    /\ detector' = [detector EXCEPT !.processors[t] = NoProcessor]
    /\ UNCHANGED OutsideDetector

\* Line 181: _process_audio(audio_data)
ProcessorProcess(t) ==
    /\ detector.processors[t].pc = "process"
    /\ Len(detector.callbacks) < MaxCallbacks
    /\ detector' = process_audio(detector, t)
    /\ UNCHANGED OutsideDetector

\* The callback returns and line 210 runs
ProcessorRecord(t) ==
    /\ detector.processors[t].pc = "callback"
    /\ detector' = record_detection(detector, t)
    /\ UNCHANGED OutsideDetector

\* Half a second passes; a thread needs far less from taking a chunk to the
\* test of line 208
Tick ==
    /\ detector.now < MaxTicks
    /\ \A t \in Processors : detector.processors[t].pc # "process"
    /\ detector' = [detector EXCEPT !.now = @ + 1]
    /\ UNCHANGED OutsideDetector

NextDetector ==
    \/ Start
    \/ StopBegin
    \/ StopEnd
    \/ StartListening
    \/ StopListening
    \/ AudioCallback
    \/ \E t \in Processors : ProcessorGet(t)
    \/ \E t \in Processors : ProcessorExit(t)
    \/ \E t \in Processors : ProcessorProcess(t)
    \/ \E t \in Processors : ProcessorRecord(t)
    \/ Tick

SpecDetector == Init /\ [][NextDetector]_vars

\* C27: two invocations of the detection callback are never less than the
\* cooldown apart.
C27_CooldownBetweenDetections ==
    \A i, j \in 1..Len(detector.callbacks) :
        i < j => detector.callbacks[j] - detector.callbacks[i] >= CooldownTicks

\* C29: while stop_listening is the last call that returned, the detection
\* callback is not invoked.
C29_NoDetectionAfterStopListening ==
    [][(detector.main = "idle" /\ detector.caller = "stop_listening")
           => detector'.callbacks = detector.callbacks]_vars

====
